---------------------------- MODULE Spec2Model ----------------------------
(***************************************************************************)
(* project-launcher: the terminal dashboard's model (type model), its      *)
(* event handlers (Update, updateNormal, updateEdit) and the display        *)
(* projection (updateTable, getSortedProjects and the two row lookups).     *)
(*                                                                         *)
(* A Go string is a sequence of code points (UTF-8 keeps code point order,  *)
(* so the byte-wise < of Go strings is the lexicographic order used here).  *)
(***************************************************************************)
EXTENDS Integers, Sequences, FiniteSets, Bags, TLC

(***************************************************************************)
(* Strings                                                                 *)
(***************************************************************************)
EmptyStr == <<>>

S_NA == <<78, 47, 65>>                                          \* "N/A"
S_NewProject == <<78, 101, 119, 32, 80, 114, 111, 106, 101, 99, 116>>  \* "New Project"
S_NewPath == <<47, 112, 97, 116, 104, 47, 116, 111, 47, 112, 114, 111, 106, 101, 99, 116>> \* "/path/to/project"
S_NewCommand == <<99, 111, 109, 109, 97, 110, 100>>             \* "command"
S_FolderPrefix == <<128194, 32>>                                \* "📂 " of the category header
S_Zeta == <<90, 101, 116, 97>>
S_Alpha == <<65, 108, 112, 104, 97>>
S_Beta == <<66, 101, 116, 97>>
S_Web == <<87, 101, 98>>

S_MntC_Slash == <<47, 109, 110, 116, 47, 99, 47>>  \* "/mnt/c/"
S_MntC == <<47, 109, 110, 116, 47, 99>>  \* "/mnt/c"
S_CDrive == <<67, 58>>  \* "C:"
S_Slash == <<47>>  \* "/"
S_Backslash == <<92>>  \* backslash
S_DotExe == <<46, 101, 120, 101>>  \* ".exe"
S_SetLocation == <<83, 101, 116, 45, 76, 111, 99, 97, 116, 105, 111, 110, 32, 39>>  \* "Set-Location '"
S_StartProcess == <<39, 59, 32, 83, 116, 97, 114, 116, 45, 80, 114, 111, 99, 101, 115, 115, 32, 39>>  \* "'; Start-Process '"
S_Quote == <<39>>  \* "'"
S_QuoteSemi == <<39, 59, 32>>  \* "'; "
S_Cd == <<99, 100, 32, 39>>  \* "cd '"
S_QuoteAnd == <<39, 32, 38, 38, 32>>  \* "' && "
S_Updated == <<9989, 32, 80, 114, 111, 106, 101, 99, 116, 32, 117, 112, 100, 97, 116, 101, 100>>  \* "(check mark) Project updated"
S_Added == <<10133, 32, 78, 101, 119, 32, 112, 114, 111, 106, 101, 99, 116, 32, 97, 100, 100, 101, 100>>  \* "(plus) New project added"
S_Deleted == <<128465, 65039, 32, 68, 101, 108, 101, 116, 101, 100, 32>>  \* "(bin) Deleted "
S_Refreshed == <<128260, 32, 82, 101, 102, 114, 101, 115, 104, 101, 100>>  \* "(arrows) Refreshed"
S_NoLink == <<128237, 32, 78, 111, 32, 76, 105, 110, 107, 32, 65, 115, 115, 111, 99, 105, 97, 116, 101, 100>>  \* "(mailbox) No Link Associated"
S_FailedLaunch == <<10060, 32, 70, 97, 105, 108, 101, 100, 32, 116, 111, 32, 108, 97, 117, 110, 99, 104, 32>>  \* "(cross) Failed to launch "
S_ColonSpace == <<58, 32>>  \* ": "
S_FailedLink == <<10060, 32, 70, 97, 105, 108, 101, 100, 32, 116, 111, 32, 111, 112, 101, 110, 32, 108, 105, 110, 107, 58, 32>>  \* "(cross) Failed to open link: "
S_Launched == <<128640, 32, 76, 97, 117, 110, 99, 104, 101, 100, 32>>  \* "(rocket) Launched "
S_WindowsVia == <<32, 40, 87, 105, 110, 100, 111, 119, 115, 32, 118, 105, 97, 32>>  \* " (Windows via "
S_CloseParen == <<41>>  \* ")"
S_PowerShell == <<80, 111, 119, 101, 114, 83, 104, 101, 108, 108>>  \* "PowerShell"
S_PowerShellStart == <<80, 111, 119, 101, 114, 83, 104, 101, 108, 108, 32, 83, 116, 97, 114, 116, 45, 80, 114, 111, 99, 101, 115, 115>>  \* "PowerShell Start-Process"
S_Opened == <<127760, 32, 79, 112, 101, 110, 101, 100, 32>>  \* "(globe) Opened "
S_LinkInBrowser == <<32, 108, 105, 110, 107, 32, 105, 110, 32, 98, 114, 111, 119, 115, 101, 114>>  \* " link in browser"

\* unicode.ToLower on one code point: A-Z, the Kelvin sign (U+212A -> k); the
\* long s (U+017F) is a lower-case letter already and maps to itself.
ToLowerRune(c) ==
    IF c >= 65 /\ c <= 90 THEN c + 32
    ELSE IF c = 8490 THEN 107
    ELSE c

\* strings.ToLower
ToLower(s) == [i \in 1..Len(s) |-> ToLowerRune(s[i])]

\* The least member of a code point's unicode.SimpleFold orbit:
\* {S, s, U+017F}, {K, k, U+212A}, {X, x} for the other ASCII letters.
FoldRune(c) ==
    IF c >= 97 /\ c <= 122 THEN c - 32
    ELSE IF c = 383 THEN 83
    ELSE IF c = 8490 THEN 75
    ELSE c

\* strings.EqualFold: rune by rune, equal under simple case folding.
EqualFold(s, t) ==
    /\ Len(s) = Len(t)
    /\ \A i \in 1..Len(s) : FoldRune(s[i]) = FoldRune(t[i])

\* Go's s < t on strings.
StrLess(s, t) ==
    \/ /\ Len(s) < Len(t)
       /\ \A i \in 1..Len(s) : s[i] = t[i]
    \/ \E k \in 1..Len(s) :
         /\ k <= Len(t)
         /\ s[k] < t[k]
         /\ \A i \in 1..(k - 1) : s[i] = t[i]

\* type Project (the five string fields)
Project(n, p, c, l, cat) ==
    [Name |-> n, Path |-> p, Command |-> c, Link |-> l, Category |-> cat]

\* The display category: an empty category is shown (and sorted) as "N/A".
DisplayCategory(project) ==
    IF project.Category = EmptyStr THEN S_NA ELSE project.Category

(***************************************************************************)
(* getSortedProjects: sort.Slice on a copy, with the comparator below.     *)
(***************************************************************************)
\* The comparator without its tie-break on the name.
ProjectLessCategoryOnly(pi, pj) ==
    LET categoryI == DisplayCategory(pi)
        categoryJ == DisplayCategory(pj)
    IN  /\ ~EqualFold(categoryI, categoryJ)
        /\ StrLess(ToLower(categoryI), ToLower(categoryJ))

\* The less function handed to sort.Slice.
ProjectLess(pi, pj) ==
    LET categoryI == DisplayCategory(pi)
        categoryJ == DisplayCategory(pj)
    IN  IF ~EqualFold(categoryI, categoryJ)
        THEN StrLess(ToLower(categoryI), ToLower(categoryJ))
        ELSE StrLess(ToLower(pi.Name), ToLower(pj.Name))

Swap(s, i, j) == [s EXCEPT ![i] = s[j], ![j] = s[i]]

\* The inner loop of insertion sort: for j := i; j > a && less(j, j-1); j-- { swap }
\* (1-based positions; a is the first position of the range).
RECURSIVE InsertBack(_, _, _)
InsertBack(s, j, a) ==
    IF j > a /\ ProjectLess(s[j], s[j - 1])
    THEN InsertBack(Swap(s, j, j - 1), j - 1, a)
    ELSE s

\* insertionSort on positions a..b (inclusive), starting at i.
RECURSIVE InsertionSortFrom(_, _, _, _)
InsertionSortFrom(s, i, a, b) ==
    IF i > b THEN s
    ELSE InsertionSortFrom(InsertBack(s, i, a), i + 1, a, b)

InsertionSort(s, a, b) == InsertionSortFrom(s, a + 1, a, b)

\* pdqsort_func of package sort, which sort.Slice runs on the whole slice
\* (Go 1.19 and later).  Indices are Go's: 0-based, ranges [a, b).  The
\* branches are those a slice of at most maxInsertion + 1 elements can take:
\* such a slice is partitioned at most once, with wasBalanced and
\* wasPartitioned still true, a = 0 and limit > 0, and it is shorter than
\* shortestNinther and shortestShifting.
maxInsertion == 12

Less(s, i, j) == ProjectLess(s[i + 1], s[j + 1])
SwapAt(s, i, j) == Swap(s, i + 1, j + 1)

\* order2_func: <<x, y, swaps>> with data[x] <= data[y].
order2(s, a, b, swaps) ==
    IF Less(s, b, a) THEN <<b, a, swaps + 1>> ELSE <<a, b, swaps>>

\* median_func, statement by statement; each step receives the pairs the
\* earlier statements ordered.
\*   a, b = order2(a, b); b, c = order2(b, c); a, b = order2(a, b); return b
medianReturn(o3) == <<o3[2], o3[3]>>
medianThird(s, o1, o2) == medianReturn(order2(s, o1[1], o2[1], o2[3]))
medianSecond(s, o1, c) == medianThird(s, o1, order2(s, o1[2], c, o1[3]))
median(s, a, b, c, swaps) == medianSecond(s, order2(s, a, b, swaps), c)

\* The switch on swaps that ends choosePivot_func (maxSwaps is not reached
\* without the ninther).
pivotHint(m) ==
    [pivot |-> m[1], hint |-> IF m[2] = 0 THEN "increasing" ELSE "unknown"]

\* choosePivot_func for fewer than shortestNinther elements.
choosePivot(s, a, b) ==
    LET l == b - a
    IN  pivotHint(IF l >= 8
                  THEN median(s, a + (l \div 4) * 1, a + (l \div 4) * 2,
                              a + (l \div 4) * 3, 0)
                  ELSE <<a + (l \div 4) * 2, 0>>)

\* partialInsertionSort_func for fewer than shortestShifting elements: it
\* moves nothing and reports whether the range is already in order.
partialInsertionSort(s, a, b) ==
    \A i \in (a + 1)..(b - 1) : ~Less(s, i, i - 1)

\* for i <= j && less(i, a) { i++ }
RECURSIVE ScanUp(_, _, _, _)
ScanUp(s, i, j, a) ==
    IF i <= j /\ Less(s, i, a) THEN ScanUp(s, i + 1, j, a) ELSE i

\* for i <= j && !less(j, a) { j-- }
RECURSIVE ScanDown(_, _, _, _)
ScanDown(s, i, j, a) ==
    IF i <= j /\ ~Less(s, j, a) THEN ScanDown(s, i, j - 1, a) ELSE j

\* The main loop of partition_func, <<data, j>> at its break: the scan of i,
\* then the scan of j, then the break or the swap and the next round.
RECURSIVE PartitionLoop(_, _, _, _)
RECURSIVE PartitionLoopDown(_, _, _, _)
RECURSIVE PartitionLoopSwap(_, _, _, _)
PartitionLoop(s, i, j, a) == PartitionLoopDown(s, ScanUp(s, i, j, a), j, a)
PartitionLoopDown(s, i, j, a) == PartitionLoopSwap(s, i, ScanDown(s, i, j, a), a)
PartitionLoopSwap(s, i, j, a) ==
    IF i > j THEN <<s, j>>
    ELSE PartitionLoop(SwapAt(s, i, j), i + 1, j - 1, a)

\* partition_func: the pivot goes to the front, the range is split around it,
\* and the pivot is swapped to its place mid.  The steps follow the function:
\* the first two scans, the early return, the loop, the final swap.
partitionEnd(r, a) == [data |-> SwapAt(r[1], r[2], a), mid |-> r[2]]
partitionSplit(s, i, j, a) ==
    IF i > j
    THEN [data |-> SwapAt(s, j, a), mid |-> j]
    ELSE partitionEnd(PartitionLoop(SwapAt(s, i, j), i + 1, j - 1, a), a)
partitionDown(s, i, a, b) == partitionSplit(s, i, ScanDown(s, i, b - 1, a), a)
partitionUp(s, a, b) == partitionDown(s, ScanUp(s, a + 1, b - 1, a), a, b)
partition(s, a, b, pivot) == partitionUp(SwapAt(s, a, pivot), a, b)

\* pdqsort_func(data, a, b, limit): the shorter side is sorted by the
\* recursive call, the longer one by the next round of the loop.
RECURSIVE pdqsort(_, _, _)
RECURSIVE pdqsortSides(_, _, _)
RECURSIVE pdqsortChosen(_, _, _, _)
pdqsortSides(parted, a, b) ==
    IF parted.mid - a < b - parted.mid
    THEN pdqsort(pdqsort(parted.data, a, parted.mid), parted.mid + 1, b)
    ELSE pdqsort(pdqsort(parted.data, parted.mid + 1, b), a, parted.mid)
pdqsortChosen(s, a, b, chosen) ==
    IF chosen.hint = "increasing" /\ partialInsertionSort(s, a, b)
    THEN s
    ELSE pdqsortSides(partition(s, a, b, chosen.pivot), a, b)
pdqsort(s, a, b) ==
    IF b - a <= maxInsertion THEN InsertionSort(s, a + 1, b)
    ELSE pdqsortChosen(s, a, b, choosePivot(s, a, b))

\* sort.Slice(sortedProjects, less)
SortSlice(s) == pdqsort(s, 0, Len(s))

\* getSortedProjects: the catalog itself is left in its order.
getSortedProjects(projects) == SortSlice(projects)

(***************************************************************************)
(* updateTable: the display rows and the index map.  A row carries the     *)
(* branch of the loop that emitted it (kind) beside its cells.             *)
(***************************************************************************)
NumFields == 5

Min(a, b) == IF a < b THEN a ELSE b
Max(a, b) == IF a > b THEN a ELSE b

\* headerRow: visibleCols cells, the category header in absolute column 0.
HeaderRow(displayCategory, scrollOffset, visibleCols) ==
    [kind |-> "header",
     cells |-> [i \in 1..visibleCols |->
                  IF scrollOffset + (i - 1) = 0
                  THEN S_FolderPrefix \o displayCategory
                  ELSE EmptyStr]]

\* visibleRow: fullRow[startCol:endCol] with endCol cut to len(fullRow).
ProjectRow(project, scrollOffset, visibleCols) ==
    LET fullRow == <<project.Name, project.Path, project.Command,
                     DisplayCategory(project), project.Link>>
        startCol == scrollOffset
        endCol == Min(startCol + visibleCols, Len(fullRow))
    IN  [kind |-> "project",
         cells |-> [i \in 1..Max(endCol - startCol, 0) |-> fullRow[startCol + i]]]

\* The loop with the display row number stored in the index map in place of
\* the record-row counter.
RECURSIVE TableLoopRowNumber(_, _, _, _, _, _, _)
TableLoopRowNumber(sorted, k, lastCategory, projectIndex, scrollOffset, visibleCols, acc) ==
    IF k > Len(sorted) THEN acc
    ELSE
      LET project == sorted[k]
          displayCategory == DisplayCategory(project)
          withHeader ==
            IF displayCategory # lastCategory
            THEN [rows |-> Append(acc.rows,
                                  HeaderRow(displayCategory, scrollOffset, visibleCols)),
                  indices |-> Append(acc.indices, -1)]
            ELSE acc
          withRow ==
            [rows |-> Append(withHeader.rows,
                             ProjectRow(project, scrollOffset, visibleCols)),
             indices |-> Append(withHeader.indices, Len(withHeader.rows))]
      IN  TableLoopRowNumber(sorted, k + 1, displayCategory, projectIndex + 1,
                             scrollOffset, visibleCols, withRow)

\* The loop of updateTable over sortedProjects[k..]: lastCategory is the
\* last emitted display category, projectIndex the record-row counter.
RECURSIVE TableLoop(_, _, _, _, _, _, _)
TableLoop(sorted, k, lastCategory, projectIndex, scrollOffset, visibleCols, acc) ==
    IF k > Len(sorted) THEN acc
    ELSE
      LET project == sorted[k]
          displayCategory == DisplayCategory(project)
          withHeader ==
            IF displayCategory # lastCategory
            THEN [rows |-> Append(acc.rows,
                                  HeaderRow(displayCategory, scrollOffset, visibleCols)),
                  indices |-> Append(acc.indices, -1)]
            ELSE acc
          withRow ==
            [rows |-> Append(withHeader.rows,
                             ProjectRow(project, scrollOffset, visibleCols)),
             indices |-> Append(withHeader.indices, projectIndex)]
      IN  TableLoop(sorted, k + 1, displayCategory, projectIndex + 1,
                    scrollOffset, visibleCols, withRow)

\* The rows and index map updateTable builds for a catalog, a scroll offset
\* and visibleCols = len(m.table.Columns()).
BuildTable(projects, scrollOffset, visibleCols) ==
    TableLoop(getSortedProjects(projects), 1, EmptyStr, 0, scrollOffset, visibleCols,
              [rows |-> <<>>, indices |-> <<>>])

(***************************************************************************)
(* The row lookups.  Indices are 0-based as in the source; -1 is "none".  *)
(***************************************************************************)
\* The match on the name alone.
FirstMatchByName(projects, sortedProject) ==
    LET hits == {i \in 1..Len(projects) : projects[i].Name = sortedProject.Name}
    IN  IF hits = {} THEN -1
        ELSE (CHOOSE i \in hits : \A j \in hits : i <= j) - 1

\* The last catalog index whose (Name, Path, Command) match.
LastMatch(projects, sortedProject) ==
    LET hits == {i \in 1..Len(projects) :
                   /\ projects[i].Name = sortedProject.Name
                   /\ projects[i].Path = sortedProject.Path
                   /\ projects[i].Command = sortedProject.Command}
    IN  IF hits = {} THEN -1
        ELSE (CHOOSE i \in hits : \A j \in hits : i >= j) - 1

\* The first catalog index whose (Name, Path, Command) match the sorted project.
FirstMatch(projects, sortedProject) ==
    LET hits == {i \in 1..Len(projects) :
                   /\ projects[i].Name = sortedProject.Name
                   /\ projects[i].Path = sortedProject.Path
                   /\ projects[i].Command = sortedProject.Command}
    IN  IF hits = {} THEN -1
        ELSE (CHOOSE i \in hits : \A j \in hits : i <= j) - 1

\* The lookup that hands back the position in the sorted copy.
getSortedIndexByDisplayIndex(projects, projectIndices, displayIndex) ==
    IF displayIndex < 0 \/ displayIndex >= Len(projectIndices) THEN -1
    ELSE LET projectIndex == projectIndices[displayIndex + 1]
         IN  IF projectIndex >= Len(projects) THEN -1 ELSE projectIndex

getOriginalIndexByDisplayIndex(projects, projectIndices, displayIndex) ==
    IF displayIndex < 0 \/ displayIndex >= Len(projectIndices) THEN -1
    ELSE LET projectIndex == projectIndices[displayIndex + 1]
             sortedProjects == getSortedProjects(projects)
         IN  IF projectIndex = -1 THEN -1
             ELSE IF projectIndex >= Len(sortedProjects) THEN -1
             ELSE FirstMatch(projects, sortedProjects[projectIndex + 1])

\* The lookup that takes the display row for a position in the sorted copy.
getProjectByRowNumber(projects, projectIndices, displayIndex) ==
    LET sortedProjects == getSortedProjects(projects)
    IN  IF displayIndex < 0 \/ displayIndex >= Len(sortedProjects) THEN -1
        ELSE FirstMatch(projects, sortedProjects[displayIndex + 1])

\* getProjectByDisplayIndex returns &m.projects[i] or nil: the pointer is
\* the catalog index i, nil is -1.
getProjectByDisplayIndex(projects, projectIndices, displayIndex) ==
    IF displayIndex < 0 \/ displayIndex >= Len(projectIndices) THEN -1
    ELSE LET projectIndex == projectIndices[displayIndex + 1]
             sortedProjects == getSortedProjects(projects)
         IN  IF projectIndex = -1 THEN -1
             ELSE IF projectIndex >= Len(sortedProjects) THEN -1
             ELSE FirstMatch(projects, sortedProjects[projectIndex + 1])

(***************************************************************************)
(* Small string helpers of package strings.                                *)
(***************************************************************************)
HasPrefix(s, prefix) ==
    Len(s) >= Len(prefix) /\ SubSeq(s, 1, Len(prefix)) = prefix

HasSuffix(s, suffix) ==
    Len(s) >= Len(suffix) /\ SubSeq(s, Len(s) - Len(suffix) + 1, Len(s)) = suffix

\* strings.ReplaceAll for a non-empty old: non-overlapping, left to right.
RECURSIVE ReplaceAll(_, _, _)
ReplaceAll(s, old, new) ==
    IF Len(s) < Len(old) THEN s
    ELSE IF SubSeq(s, 1, Len(old)) = old
         THEN new \o ReplaceAll(SubSeq(s, Len(old) + 1, Len(s)), old, new)
         ELSE <<s[1]>> \o ReplaceAll(Tail(s), old, new)

(***************************************************************************)
(* The state: the fields of type model (the table and text input widgets   *)
(* by the parts of their state the program reads), the configuration file, *)
(* and what the handling of the last event handed to the runtime.          *)
(***************************************************************************)
VARIABLES
    projects,        \* m.projects: the catalog
    rows,            \* m.table rows, as set by updateTable
    projectIndices,  \* m.projectIndices
    cursor,          \* m.table.Cursor()
    columns,         \* m.table.Columns()
    tableHeight,     \* the height handed to the table
    editMode, editRow, editCol,
    textInput,       \* m.textInput: [value, pos, focus]
    width, height,
    scrollOffset, maxCols,
    statusMsg,       \* m.statusMsg
    store,           \* the file at m.configFile: [exists, whole, data]
    cmd,             \* the tea.Cmd returned by the last Update
    inFlight,        \* the returned commands whose message has yet to arrive (a bag)
    spawned,         \* the processes cmd.Start() was called on in the last Update
    phase,           \* "running", "quit" (tea.Quit ran) or "panic"
    lastMsg,         \* the message the last Update call handled ("" before any)
    clampsCursor     \* whether this build's table.SetRows clamps the cursor

vars == <<projects, rows, projectIndices, cursor, columns, tableHeight,
          editMode, editRow, editCol, textInput, width, height,
          scrollOffset, maxCols, statusMsg, store, cmd, inFlight, spawned,
          phase, lastMsg, clampsCursor>>

\* The state as one record, the form the methods below work on.
World ==
    [projects |-> projects, rows |-> rows, projectIndices |-> projectIndices,
     cursor |-> cursor, columns |-> columns, tableHeight |-> tableHeight,
     editMode |-> editMode, editRow |-> editRow, editCol |-> editCol,
     textInput |-> textInput, width |-> width, height |-> height,
     scrollOffset |-> scrollOffset, maxCols |-> maxCols,
     statusMsg |-> statusMsg, store |-> store, cmd |-> cmd,
     spawned |-> spawned, phase |-> phase, lastMsg |-> lastMsg,
     clampsCursor |-> clampsCursor]

Commit(w) ==
    /\ projects' = w.projects
    /\ rows' = w.rows
    /\ projectIndices' = w.projectIndices
    /\ cursor' = w.cursor
    /\ columns' = w.columns
    /\ tableHeight' = w.tableHeight
    /\ editMode' = w.editMode
    /\ editRow' = w.editRow
    /\ editCol' = w.editCol
    /\ textInput' = w.textInput
    /\ width' = w.width
    /\ height' = w.height
    /\ scrollOffset' = w.scrollOffset
    /\ maxCols' = w.maxCols
    /\ statusMsg' = w.statusMsg
    /\ store' = w.store
    /\ cmd' = w.cmd
    /\ spawned' = w.spawned
    /\ phase' = w.phase
    /\ lastMsg' = w.lastMsg
    /\ clampsCursor' = w.clampsCursor

NoCmd == [type |-> "none", message |-> EmptyStr]
QuitCmd == [type |-> "quit", message |-> EmptyStr]
\* The command of a widget's own Update (the text input's blink, or nil).
WidgetCmd == [type |-> "widget", message |-> EmptyStr]
showStatus(msg) == [type |-> "status", message |-> msg]

(***************************************************************************)
(* The configuration file: a JSON array of objects.                        *)
(***************************************************************************)
JsonKeys == {"name", "path", "command", "link", "category"}

\* json.MarshalIndent of one Project: the five tagged keys.
MarshalProject(project) ==
    [k \in JsonKeys |->
       CASE k = "name" -> project.Name
         [] k = "path" -> project.Path
         [] k = "command" -> project.Command
         [] k = "link" -> project.Link
         [] k = "category" -> project.Category]

\* json.Unmarshal of one object: an absent key leaves the empty string.
UnmarshalProject(obj) ==
    LET get(k) == IF k \in DOMAIN obj THEN obj[k] ELSE EmptyStr
    IN  Project(get("name"), get("path"), get("command"), get("link"), get("category"))

MarshalProjects(ps) == [i \in 1..Len(ps) |-> MarshalProject(ps[i])]

\* loadProjects: an unreadable file gives the nil slice, and so does a file
\* whose text is cut short: json.Unmarshal checks the whole text before it
\* stores anything, and its error is dropped.
loadProjects(file) ==
    IF ~file.exists \/ ~file.whole THEN <<>>
    ELSE [i \in 1..Len(file.data) |-> UnmarshalProject(file.data[i])]

\* A save that never reaches the file.
saveProjectsDropped(w, written) == w

\* What os.WriteFile can do to the file.  It opens the file with O_CREATE and
\* O_TRUNC and then writes: the write goes through; or the open fails and the
\* file is as before; or the open succeeds, emptying the file, and the write
\* fails, leaving a strict prefix of the text (possibly nothing), which is
\* not JSON.
WriteDone == "done"
WriteRefused == "refused"
WriteCut == "cut"
WriteFailures == {WriteRefused, WriteCut}
WriteOutcomes == {WriteDone} \cup WriteFailures

WholeFile(text) == [exists |-> TRUE, whole |-> TRUE, data |-> text]
CutFile == [exists |-> TRUE, whole |-> FALSE, data |-> <<>>]

\* saveProjects: the error of os.WriteFile is dropped; written is what the
\* call did to the file.
saveProjects(w, written) ==
    CASE written = WriteDone ->
           [w EXCEPT !.store = WholeFile(MarshalProjects(w.projects))]
      [] written = WriteRefused -> w
      [] written = WriteCut -> [w EXCEPT !.store = CutFile]

(***************************************************************************)
(* The table widget (bubbles/table): rows, columns, cursor.                *)
(***************************************************************************)
clamp(v, low, high) == Min(Max(v, low), high)

TableSetRows(w, r) ==
    [w EXCEPT !.rows = r,
              !.cursor = IF w.clampsCursor /\ w.cursor > Len(r) - 1
                         THEN Len(r) - 1 ELSE w.cursor]

TableSetCursor(w, n) == [w EXCEPT !.cursor = clamp(n, 0, Len(w.rows) - 1)]

TableMoveUp(w, n) == [w EXCEPT !.cursor = clamp(w.cursor - n, 0, Len(w.rows) - 1)]

TableMoveDown(w, n) == [w EXCEPT !.cursor = clamp(w.cursor + n, 0, Len(w.rows) - 1)]

\* A run-time panic inside Update: the program ends where it stands.
Panic(w) == [w EXCEPT !.phase = "panic"]

\* UpdateViewport renders the rows the table holds, and renderRow indexes
\* the columns by the position of each cell of the row: a row with more
\* cells than there are columns is an index out of range.
TableRenderPanics(r, cols) == \E i \in 1..Len(r) : Len(r[i].cells) > Len(cols)

\* table.SetColumns: the columns are replaced, then the rows are rendered.
TableSetColumns(w, c) ==
    IF TableRenderPanics(w.rows, c)
    THEN Panic([w EXCEPT !.columns = c])
    ELSE [w EXCEPT !.columns = c]

\* table.SetHeight: the height is replaced, then the rows are rendered.
TableSetHeight(w, h) ==
    IF TableRenderPanics(w.rows, w.columns)
    THEN Panic([w EXCEPT !.tableHeight = h])
    ELSE [w EXCEPT !.tableHeight = h]

\* table.Update on a key of its key map; other keys change nothing.
TableUpdate(w, key) ==
    CASE key = "up" -> TableMoveUp(w, 1)
      [] key = "down" -> TableMoveDown(w, 1)
      [] key = "home" -> TableMoveUp(w, w.cursor)
      [] key = "end" -> TableMoveDown(w, Len(w.rows))
      [] OTHER -> w

(***************************************************************************)
(* updateTable and adjustLayout                                            *)
(***************************************************************************)
updateTable(w) ==
    LET built == BuildTable(w.projects, w.scrollOffset, Len(w.columns))
    IN  TableSetRows([w EXCEPT !.projectIndices = built.indices], built.rows)

Column(title, colWidth) == [Title |-> title, Width |-> colWidth]

\* The columns main hands to table.New.
InitialColumns ==
    <<Column("Name", 30), Column("Path", 40), Column("Command", 30),
      Column("Category", 15)>>

\* allColumns of adjustLayout
AllColumns ==
    <<Column("Name", 30), Column("Path", 35), Column("Command", 35),
      Column("Category", 15), Column("Link", 30)>>

\* "Calculate how many columns can fit": the loop over allColumns from
\* index i (0-based), with its running totalWidth and visibleCols.
RECURSIVE FitLoop(_, _, _, _)
FitLoop(i, totalWidth, visibleCols, availableWidth) ==
    IF i >= Len(AllColumns) THEN visibleCols
    ELSE IF totalWidth + AllColumns[i + 1].Width <= availableWidth
         THEN IF i >= Len(AllColumns) - 1 THEN visibleCols + 1
              ELSE FitLoop(i + 1, totalWidth + AllColumns[i + 1].Width,
                           visibleCols + 1, availableWidth)
         ELSE visibleCols

RECURSIVE SumWidths(_)
SumWidths(cols) ==
    IF cols = <<>> THEN 0 ELSE Head(cols).Width + SumWidths(Tail(cols))

\* The end of adjustLayout: the columns and the height go to the table, which
\* renders the rows it still holds, then maxCols is stored.
adjustLayoutSet(w, visibleColumns, tableHeightNew, allCount) ==
    LET w1 == TableSetColumns(w, visibleColumns)
        w2 == IF w1.phase = "panic" THEN w1 ELSE TableSetHeight(w1, tableHeightNew)
    IN  IF w2.phase = "panic" THEN w2 ELSE [w2 EXCEPT !.maxCols = allCount]

\* The layout without "Ensure we show at least one column".
adjustLayoutNoMinimum(w) ==
    LET tableHeightNew == IF w.height - 6 < 5 THEN 5 ELSE w.height - 6
        availableWidth == w.width - 6
        visibleCols == FitLoop(0, 0, 0, availableWidth)
        over == w.scrollOffset + visibleCols > Len(AllColumns)
        endCol == IF over THEN Len(AllColumns) ELSE w.scrollOffset + visibleCols
        startCol == IF over THEN Max(endCol - visibleCols, 0) ELSE w.scrollOffset
        visibleColumns == [i \in 1..Max(endCol - startCol, 0) |-> AllColumns[startCol + i]]
        extraWidth == availableWidth - SumWidths(visibleColumns)
        widened == IF Len(visibleColumns) > 0 /\ extraWidth > 0
                   THEN [visibleColumns EXCEPT
                           ![Len(visibleColumns)].Width = @ + extraWidth]
                   ELSE visibleColumns
    IN  adjustLayoutSet([w EXCEPT !.scrollOffset = startCol], widened,
                        tableHeightNew, Len(AllColumns))

\* The layout with the leftover width given to the first visible column.
adjustLayoutWidenFirst(w) ==
    LET tableHeightNew == IF w.height - 6 < 5 THEN 5 ELSE w.height - 6
        availableWidth == w.width - 6
        fit == FitLoop(0, 0, 0, availableWidth)
        visibleCols == IF fit = 0 THEN 1 ELSE fit
        allColumns == IF fit = 0
                      THEN [AllColumns EXCEPT ![1].Width = availableWidth]
                      ELSE AllColumns
        over == w.scrollOffset + visibleCols > Len(allColumns)
        endCol == IF over THEN Len(allColumns) ELSE w.scrollOffset + visibleCols
        startCol == IF over THEN Max(endCol - visibleCols, 0) ELSE w.scrollOffset
        visibleColumns == [i \in 1..Max(endCol - startCol, 0) |-> allColumns[startCol + i]]
        extraWidth == availableWidth - SumWidths(visibleColumns)
        widened == IF Len(visibleColumns) > 0 /\ extraWidth > 0
                   THEN [visibleColumns EXCEPT ![1].Width = @ + extraWidth]
                   ELSE visibleColumns
    IN  adjustLayoutSet([w EXCEPT !.scrollOffset = startCol], widened,
                        tableHeightNew, Len(allColumns))

adjustLayout(w) ==
    LET tableHeightNew == IF w.height - 6 < 5 THEN 5 ELSE w.height - 6
        availableWidth == w.width - 6
        fit == FitLoop(0, 0, 0, availableWidth)
        visibleCols == IF fit = 0 THEN 1 ELSE fit
        allColumns == IF fit = 0
                      THEN [AllColumns EXCEPT ![1].Width = availableWidth]
                      ELSE AllColumns
        over == w.scrollOffset + visibleCols > Len(allColumns)
        endCol == IF over THEN Len(allColumns) ELSE w.scrollOffset + visibleCols
        startCol == IF over THEN Max(endCol - visibleCols, 0) ELSE w.scrollOffset
        visibleColumns == [i \in 1..Max(endCol - startCol, 0) |-> allColumns[startCol + i]]
        extraWidth == availableWidth - SumWidths(visibleColumns)
        widened == IF Len(visibleColumns) > 0 /\ extraWidth > 0
                   THEN [visibleColumns EXCEPT
                           ![Len(visibleColumns)].Width = @ + extraWidth]
                   ELSE visibleColumns
    IN  adjustLayoutSet([w EXCEPT !.scrollOffset = startCol], widened,
                        tableHeightNew, Len(allColumns))

(***************************************************************************)
(* The text input widget (bubbles/textinput): value, cursor, focus.        *)
(***************************************************************************)
CharLimit == 200

\* SetValue: the value is cut to CharLimit; the cursor goes to the end when it
\* was at 0 of an empty value or lies beyond the new value.
TextSetValue(ti, value) ==
    LET cut == SubSeq(value, 1, Min(Len(value), CharLimit))
    IN  [ti EXCEPT !.value = cut,
                   !.pos = IF (ti.pos = 0 /\ ti.value = EmptyStr) \/ ti.pos > Len(cut)
                           THEN Len(cut) ELSE ti.pos]

TextSetCursor(ti, n) == [ti EXCEPT !.pos = clamp(n, 0, Len(ti.value))]

\* textinput.Update on a key: a rune is inserted at the cursor, "ctrl+u"
\* deletes what is before the cursor, "left" and "right" move the cursor,
\* "backspace" deletes the rune before it; an unfocused input ignores keys.
TextUpdate(ti, key) ==
    IF ~ti.focus THEN ti
    ELSE CASE key.type = "rune" ->
                IF Len(ti.value) >= CharLimit THEN ti
                ELSE [ti EXCEPT
                        !.value = SubSeq(ti.value, 1, ti.pos) \o <<key.rune>>
                                  \o SubSeq(ti.value, ti.pos + 1, Len(ti.value)),
                        !.pos = ti.pos + 1]
           [] key.type = "ctrl+u" ->
                [ti EXCEPT !.value = SubSeq(ti.value, ti.pos + 1, Len(ti.value)),
                           !.pos = 0]
           [] key.type = "backspace" ->
                IF ti.pos = 0 THEN ti
                ELSE [ti EXCEPT
                        !.value = SubSeq(ti.value, 1, ti.pos - 1)
                                  \o SubSeq(ti.value, ti.pos + 1, Len(ti.value)),
                        !.pos = ti.pos - 1]
           [] key.type = "left" -> [ti EXCEPT !.pos = Max(ti.pos - 1, 0)]
           [] key.type = "right" -> [ti EXCEPT !.pos = Min(ti.pos + 1, Len(ti.value))]
           [] OTHER -> ti

(***************************************************************************)
(* The edit session: startEdit, saveEdit, cancelEdit                       *)
(***************************************************************************)
\* The switch on m.editCol that reads a field.
FieldValue(project, col) ==
    CASE col = 0 -> project.Name
      [] col = 1 -> project.Path
      [] col = 2 -> project.Command
      [] col = 3 -> project.Link
      [] col = 4 -> project.Category
      [] OTHER -> EmptyStr

\* The switch with ordinals 3 and 4 in the order of the table's columns.
SetFieldDisplayOrder(project, col, value) ==
    CASE col = 0 -> [project EXCEPT !.Name = value]
      [] col = 1 -> [project EXCEPT !.Path = value]
      [] col = 2 -> [project EXCEPT !.Command = value]
      [] col = 3 -> [project EXCEPT !.Category = value]
      [] col = 4 -> [project EXCEPT !.Link = value]
      [] OTHER -> project

\* The switch on m.editCol that writes a field.
SetField(project, col, value) ==
    CASE col = 0 -> [project EXCEPT !.Name = value]
      [] col = 1 -> [project EXCEPT !.Path = value]
      [] col = 2 -> [project EXCEPT !.Command = value]
      [] col = 3 -> [project EXCEPT !.Link = value]
      [] col = 4 -> [project EXCEPT !.Category = value]
      [] OTHER -> project

\* textInput.SetValue(v); textInput.SetCursor(len(v))
LoadBuffer(ti, value) ==
    LET set == TextSetValue(ti, value) IN TextSetCursor(set, Len(value))

startEdit(w) ==
    IF Len(w.projects) = 0 THEN w
    ELSE LET displayIndex == w.cursor
             row == getOriginalIndexByDisplayIndex(w.projects, w.projectIndices,
                                                   displayIndex)
             w1 == [w EXCEPT !.editMode = TRUE, !.editRow = row]
         IN  IF row = -1 THEN w1
             ELSE [w1 EXCEPT
                     !.editCol = 0,
                     !.textInput = [LoadBuffer(w.textInput,
                                               FieldValue(w.projects[row + 1], 0))
                                    EXCEPT !.focus = TRUE]]

saveEdit(w, written) ==
    IF ~w.editMode \/ w.editRow < 0 \/ w.editRow >= Len(w.projects) THEN w
    ELSE LET value == w.textInput.value
             w1 == [w EXCEPT !.projects[w.editRow + 1] =
                               SetField(@, w.editCol, value)]
         IN  updateTable(saveProjects(w1, written))

\* Leaving the session with the buffer written to the catalog on the way.
cancelEditCommitting(w) ==
    [saveEdit(w, WriteDone) EXCEPT !.editMode = FALSE, !.editRow = -1, !.editCol = -1,
                              !.textInput = [TextSetValue(w.textInput, EmptyStr)
                                             EXCEPT !.focus = FALSE]]

cancelEdit(w) ==
    [w EXCEPT !.editMode = FALSE, !.editRow = -1, !.editCol = -1,
              !.textInput = [TextSetValue(w.textInput, EmptyStr)
                             EXCEPT !.focus = FALSE]]

(***************************************************************************)
(* launchProject and openProjectLink                                       *)
(***************************************************************************)
\* An exec.Cmd left in the process group of the launcher.
ExecCmdInherit(name, args, dir, setpgid) ==
    [name |-> name, args |-> args, dir |-> dir, setpgid |-> FALSE, pgid |-> 0,
     wait |-> FALSE]

\* One exec.Cmd handed to Start: program, arguments, Dir and SysProcAttr.
\* The handlers call Start and never Wait, Run or Output: wait is FALSE.
ExecCmd(name, args, dir, setpgid) ==
    [name |-> name, args |-> args, dir |-> dir, setpgid |-> setpgid, pgid |-> 0,
     wait |-> FALSE]

\* The exec.Cmd launchProject builds for a project.
LaunchCommand(project) ==
    LET isWindowsPath == HasPrefix(project.Path, S_MntC_Slash)
        windowsPath == ReplaceAll(ReplaceAll(project.Path, S_MntC, S_CDrive),
                                  S_Slash, S_Backslash)
    IN  IF isWindowsPath
        THEN IF HasSuffix(project.Command, S_DotExe)
             THEN ExecCmd("powershell.exe",
                          <<"-Command", S_SetLocation \o windowsPath
                                        \o S_StartProcess \o project.Command
                                        \o S_Quote>>,
                          EmptyStr, FALSE)
             ELSE ExecCmd("powershell.exe",
                          <<"-Command", S_SetLocation \o windowsPath
                                        \o S_QuoteSemi \o project.Command>>,
                          EmptyStr, FALSE)
        ELSE ExecCmd("bash",
                     <<"-c", S_Cd \o project.Path \o S_QuoteAnd \o project.Command>>,
                     project.Path, TRUE)

\* A status message that does not tell the launch methods apart.
LaunchStatusPlain(project, started) ==
    IF ~started.ok
    THEN S_FailedLaunch \o project.Name \o S_ColonSpace \o started.text
    ELSE S_Launched \o project.Name

\* The status message of launchProject; started is the outcome of cmd.Start():
\* [ok, text], text being the error's text.
LaunchStatus(project, started) ==
    IF ~started.ok
    THEN S_FailedLaunch \o project.Name \o S_ColonSpace \o started.text
    ELSE IF HasPrefix(project.Path, S_MntC_Slash)
         THEN S_Launched \o project.Name \o S_WindowsVia
              \o (IF HasSuffix(project.Command, S_DotExe)
                  THEN S_PowerShellStart ELSE S_PowerShell)
              \o S_CloseParen
         ELSE S_Launched \o project.Name

\* A launch that starts the command again when Start fails.
launchProjectRetry(w, project, started) ==
    [w EXCEPT !.spawned = IF started.ok THEN Append(@, LaunchCommand(project))
                          ELSE @ \o <<LaunchCommand(project), LaunchCommand(project)>>,
              !.cmd = showStatus(LaunchStatus(project, started))]

launchProject(w, project, started) ==
    [w EXCEPT !.spawned = Append(@, LaunchCommand(project)),
              !.cmd = showStatus(LaunchStatus(project, started))]

\* Opening the link with the error of Start dropped.
openProjectLinkUnchecked(w, project, started) ==
    IF project.Link = EmptyStr THEN [w EXCEPT !.cmd = showStatus(S_NoLink)]
    ELSE [w EXCEPT
            !.spawned = Append(@, ExecCmd("cmd.exe", <<"/c", "start", project.Link>>,
                                          EmptyStr, FALSE)),
            !.cmd = showStatus(S_Opened \o project.Name \o S_LinkInBrowser)]

\* Opening the link without the test for an empty one.
openProjectLinkAlways(w, project, started) ==
    [w EXCEPT
        !.spawned = Append(@, ExecCmd("cmd.exe", <<"/c", "start", project.Link>>,
                                      EmptyStr, FALSE)),
        !.cmd = showStatus(IF ~started.ok
                           THEN S_FailedLink \o started.text
                           ELSE S_Opened \o project.Name \o S_LinkInBrowser)]

openProjectLink(w, project, started) ==
    IF project.Link = EmptyStr THEN [w EXCEPT !.cmd = showStatus(S_NoLink)]
    ELSE [w EXCEPT
            !.spawned = Append(@, ExecCmd("cmd.exe", <<"/c", "start", project.Link>>,
                                          EmptyStr, FALSE)),
            !.cmd = showStatus(IF ~started.ok
                               THEN S_FailedLink \o started.text
                               ELSE S_Opened \o project.Name \o S_LinkInBrowser)]

(***************************************************************************)
(* Update: one action per message and key.  Every action is the whole of   *)
(* one Update call followed by the runtime's call of View.                 *)
(***************************************************************************)
\* The state a call of Update on msg starts from: nothing returned or spawned yet.
Begin(msg) == [World EXCEPT !.cmd = NoCmd, !.spawned = <<>>, !.lastMsg = msg]

\* View indexes the five field names by m.editCol when editing a non-empty
\* catalog: an editCol outside 0..4 is a run-time panic.
ViewPanics(w) ==
    /\ Len(w.projects) # 0
    /\ w.editMode
    /\ (w.editCol < 0 \/ w.editCol > 4)

\* A bound of the model, not of the program: a key that returns a command is
\* pressed only while fewer than this many messages are on their way.
MaxInFlight == 2

\* The runtime runs a returned command in a goroutine of its own: the
\* command's message arrives at some later Update, other messages possibly
\* handled before it.  A widget's command brings no message of this program.
Issued(w) ==
    IF w.phase = "running" /\ w.cmd.type \in {"status", "quit"}
    THEN SetToBag({w.cmd})
    ELSE EmptyBag

\* Update returned w (or ended in a panic), flying being the messages still
\* on their way; a command is returned only while fewer than MaxInFlight are.
FinishFrom(w, flying) ==
    /\ Issued(w) # EmptyBag => BagCardinality(flying) < MaxInFlight
    /\ inFlight' = flying (+) Issued(w)
    /\ Commit(IF w.phase = "running" /\ ViewPanics(w)
              THEN [w EXCEPT !.phase = "panic"]
              ELSE w)

Finish(w) == FinishFrom(w, inFlight)

\* case statusMsg: the message of a showStatus command arrives, whatever was
\* handled since the command was returned; the text is the message's own.
StatusMsg(msg) ==
    /\ phase = "running"
    /\ msg.type = "status"
    /\ BagIn(msg, inFlight)
    /\ FinishFrom([Begin("statusMsg") EXCEPT !.statusMsg = msg.message],
                  inFlight (-) SetToBag({msg}))

\* The message of tea.Quit arrives: the program ends.
QuitMsg ==
    /\ phase = "running"
    /\ BagIn(QuitCmd, inFlight)
    /\ phase' = "quit"
    /\ inFlight' = inFlight (-) SetToBag({QuitCmd})
    /\ UNCHANGED <<projects, rows, projectIndices, cursor, columns, tableHeight,
                   editMode, editRow, editCol, textInput, width, height,
                   scrollOffset, maxCols, statusMsg, store, cmd, spawned,
                   lastMsg, clampsCursor>>

\* No status message is on its way: the specifications that are not about
\* the order of arrival have the user press a key only then.
Quiet == \A msg \in BagToSet(inFlight) : msg.type # "status"

\* case tea.WindowSizeMsg
WindowSize(newWidth, newHeight) ==
    /\ phase = "running"
    /\ Finish(adjustLayout([Begin("WindowSizeMsg") EXCEPT !.width = newWidth, !.height = newHeight]))

NewProject == Project(S_NewProject, S_NewPath, S_NewCommand, EmptyStr, EmptyStr)

RemoveAt(s, i) == SubSeq(s, 1, i - 1) \o SubSeq(s, i + 1, Len(s))

\* updateNormal, by key -------------------------------------------------
NormalMode == phase = "running" /\ ~editMode

\* "q", "ctrl+c"
KeyQuit ==
    /\ NormalMode
    /\ Finish([Begin("q") EXCEPT !.cmd = QuitCmd])

\* "e"
KeyEdit ==
    /\ NormalMode
    /\ Finish(startEdit(Begin("e")))

\* "n", "a"
updateNormalAdd(w, written) ==
    LET w1 == [w EXCEPT !.projects = Append(@, NewProject)]
        w2 == saveProjects(updateTable(w1), written)
        w3 == TableSetCursor(w2, Len(w2.projects) - 1)
    IN  [startEdit(w3) EXCEPT !.cmd = showStatus(S_Added)]

KeyAdd(written) ==
    /\ NormalMode
    /\ Finish(updateNormalAdd(Begin("n"), written))

\* "d", "delete"
updateNormalDelete(w, written) ==
    IF Len(w.projects) > 0
    THEN LET displayIndex == w.cursor
             originalIndex == getOriginalIndexByDisplayIndex(
                                  w.projects, w.projectIndices, displayIndex)
         IN  IF originalIndex = -1 THEN w
             ELSE LET projectName == w.projects[originalIndex + 1].Name
                      w1 == [w EXCEPT !.projects = RemoveAt(@, originalIndex + 1)]
                  IN  [updateTable(saveProjects(w1, written))
                       EXCEPT !.cmd = showStatus(S_Deleted \o projectName)]
    ELSE w

KeyDelete(written) ==
    /\ NormalMode
    /\ Finish(updateNormalDelete(Begin("d"), written))

\* " ", "enter"
updateNormalLaunch(w, started) ==
    IF Len(w.projects) > 0
    THEN LET project == getProjectByDisplayIndex(w.projects, w.projectIndices, w.cursor)
         IN  IF project # -1 THEN launchProject(w, w.projects[project + 1], started)
             ELSE w
    ELSE w

KeyLaunch(started) ==
    /\ NormalMode
    /\ Finish(updateNormalLaunch(Begin(" "), started))

\* "r"
updateNormalReload(w) ==
    [updateTable([w EXCEPT !.projects = loadProjects(w.store)])
     EXCEPT !.cmd = showStatus(S_Refreshed)]

KeyReload ==
    /\ NormalMode
    /\ Finish(updateNormalReload(Begin("r")))

\* "o"
updateNormalOpen(w, started) ==
    IF Len(w.projects) > 0
    THEN LET project == getProjectByDisplayIndex(w.projects, w.projectIndices, w.cursor)
         IN  IF project # -1 THEN openProjectLink(w, w.projects[project + 1], started)
             ELSE w
    ELSE w

KeyOpenLink(started) ==
    /\ NormalMode
    /\ Finish(updateNormalOpen(Begin("o"), started))

\* m.updateTable() after m.adjustLayout(): not reached when the layout panicked.
updateTableUnlessPanic(w) == IF w.phase = "panic" THEN w ELSE updateTable(w)

\* "left"
updateNormalLeft(w) ==
    IF w.scrollOffset > 0
    THEN updateTableUnlessPanic(adjustLayout([w EXCEPT !.scrollOffset = @ - 1]))
    ELSE w

KeyLeft ==
    /\ NormalMode
    /\ Finish(updateNormalLeft(Begin("left")))

\* "right"
updateNormalRight(w) ==
    LET maxOffset == Max(w.maxCols - Len(w.columns), 0)
    IN  IF w.scrollOffset < maxOffset
        THEN updateTableUnlessPanic(adjustLayout([w EXCEPT !.scrollOffset = @ + 1]))
        ELSE w

KeyRight ==
    /\ NormalMode
    /\ Finish(updateNormalRight(Begin("right")))

\* default: the key goes to the table.
KeyTable(key) ==
    /\ NormalMode
    /\ Finish([TableUpdate(Begin(key), key) EXCEPT !.cmd = WidgetCmd])

\* updateEdit, by key ---------------------------------------------------
EditingMode == phase = "running" /\ editMode

\* "esc"
KeyEsc ==
    /\ EditingMode
    /\ Finish(cancelEdit(Begin("esc")))

\* "enter"
updateEditEnter(w, written) ==
    [cancelEdit(saveEdit(w, written)) EXCEPT !.cmd = showStatus(S_Updated)]

KeyEnter(written) ==
    /\ EditingMode
    /\ Finish(updateEditEnter(Begin("enter"), written))

\* "tab" (step 1) and "shift+tab" (step -1): m.projects[m.editRow] panics
\* when editRow is no catalog index.
updateEditMove(w, written, step) ==
    LET w1 == saveEdit(w, written)
        col == (w1.editCol + step + 5) % 5
    IN  IF w1.editRow < 0 \/ w1.editRow >= Len(w1.projects) THEN Panic(w1)
        ELSE [w1 EXCEPT
                !.editCol = col,
                !.textInput = LoadBuffer(w1.textInput,
                                         FieldValue(w1.projects[w1.editRow + 1], col))]

KeyTab(written) ==
    /\ EditingMode
    /\ Finish(updateEditMove(Begin("tab"), written, 1))

KeyShiftTab(written) ==
    /\ EditingMode
    /\ Finish(updateEditMove(Begin("shift+tab"), written, -1))

\* Every other key goes to the text input.
KeyText(key) ==
    /\ EditingMode
    /\ Finish([Begin(key.type) EXCEPT !.textInput = TextUpdate(@, key), !.cmd = WidgetCmd])

\* msg.String() of a key: a rune key reads as its character, any other key
\* as its name.
KeyString(key) ==
    IF key.type = "rune"
    THEN CASE key.rune = 113 -> "q" [] key.rune = 100 -> "d" [] key.rune = 110 -> "n"
           [] key.rune = 97 -> "a"  [] key.rune = 114 -> "r" [] key.rune = 111 -> "o"
           [] key.rune = 101 -> "e" [] key.rune = 32 -> " "  [] OTHER -> "rune"
    ELSE key.type

\* An updateEdit in which the command keys of the normal mode still act.
updateEditKeyNormal(key) ==
    /\ phase = "running" /\ editMode
    /\ CASE KeyString(key) = "esc" -> KeyEsc
         [] KeyString(key) = "enter" -> KeyEnter(WriteDone)
         [] KeyString(key) = "tab" -> KeyTab(WriteDone)
         [] KeyString(key) = "shift+tab" -> KeyShiftTab(WriteDone)
         [] KeyString(key) \in {"q", "ctrl+c"} ->
              Finish([Begin("q") EXCEPT !.cmd = QuitCmd])
         [] KeyString(key) = "d" -> Finish(updateNormalDelete(Begin("d"), WriteDone))
         [] OTHER -> KeyText(key)

\* updateEdit: the switch on msg.String() and the text input after it, every
\* write to the file going through.
updateEditKey(key) ==
    /\ EditingMode
    /\ CASE KeyString(key) = "esc" -> KeyEsc
         [] KeyString(key) = "enter" -> KeyEnter(WriteDone)
         [] KeyString(key) = "tab" -> KeyTab(WriteDone)
         [] KeyString(key) = "shift+tab" -> KeyShiftTab(WriteDone)
         [] OTHER -> KeyText(key)

(***************************************************************************)
(* main: the model as constructed, for a configuration file.               *)
(***************************************************************************)
NoFile == [exists |-> FALSE, whole |-> TRUE, data |-> <<>>]
FileOf(catalog) == WholeFile(MarshalProjects(catalog))

Constructed(file, clamps) ==
    updateTable(
      [projects |-> loadProjects(file), rows |-> <<>>, projectIndices |-> <<>>,
       cursor |-> 0, columns |-> InitialColumns, tableHeight |-> 10,
       editMode |-> FALSE, editRow |-> -1, editCol |-> -1,
       textInput |-> [value |-> EmptyStr, pos |-> 0, focus |-> FALSE],
       width |-> 100, height |-> 24, scrollOffset |-> 0, maxCols |-> 5,
       statusMsg |-> EmptyStr, store |-> file, cmd |-> NoCmd,
       spawned |-> <<>>, phase |-> "running", lastMsg |-> "",
       clampsCursor |-> clamps])

InitWith(file, clamps) ==
    LET w == Constructed(file, clamps)
    IN  /\ projects = w.projects
        /\ rows = w.rows
        /\ projectIndices = w.projectIndices
        /\ cursor = w.cursor
        /\ columns = w.columns
        /\ tableHeight = w.tableHeight
        /\ editMode = w.editMode
        /\ editRow = w.editRow
        /\ editCol = w.editCol
        /\ textInput = w.textInput
        /\ width = w.width
        /\ height = w.height
        /\ scrollOffset = w.scrollOffset
        /\ maxCols = w.maxCols
        /\ statusMsg = w.statusMsg
        /\ store = w.store
        /\ cmd = w.cmd
        /\ inFlight = EmptyBag
        /\ spawned = w.spawned
        /\ phase = w.phase
        /\ lastMsg = w.lastMsg
        /\ clampsCursor = w.clampsCursor

SeqsUpTo(S, n) == UNION {[1..k -> S] : k \in 0..n}

(***************************************************************************)
(* Spec: the whole program from its construction, on a small catalog.      *)
(***************************************************************************)
S_a == <<97>>
S_B == <<66>>
S_W == <<87>>
S_w == <<119>>
S_p == <<47, 112>>                               \* "/p"
S_c == <<99>>                                    \* "c"
S_l == <<108>>                                   \* "l"
S_WinPath == <<47, 109, 110, 116, 47, 99, 47, 120>>   \* "/mnt/c/x"
S_Exe == <<120, 46, 101, 120, 101>>              \* "x.exe"
S_ErrText == <<101, 114, 114>>                   \* "err", the text of a Start error

\* Bounds of the explored behaviours.
MaxProjects == 2      \* "n" is pressed only below this catalog length
MaxInit == 1          \* records in the configuration file at start
MaxBuf == 1           \* runes are typed only into a buffer shorter than this

\* A path one rune longer than the text input holds.
S_LongPath == [k \in 1..(CharLimit + 1) |-> 120]

SampleProjects ==
    {Project(S_a, S_p, S_c, EmptyStr, S_W),
     Project(S_B, S_WinPath, S_Exe, S_l, EmptyStr),
     Project(S_a, S_LongPath, S_c, EmptyStr, S_W)}

Files == {NoFile} \cup {FileOf(c) : c \in SeqsUpTo(SampleProjects, MaxInit)}

Started == [ok |-> TRUE, text |-> EmptyStr]
StartFailed == [ok |-> FALSE, text |-> S_ErrText]
StartOutcomes == {Started, StartFailed}

TableKeys == {"up", "down", "home", "end"}
\* The keys typed into the text input, and the fields they are typed into.
TextKeys == {[type |-> "rune", rune |-> 119], [type |-> "ctrl+u", rune |-> 0]}
TypedCols == {0}

Init == \E file \in Files, clamps \in BOOLEAN : InitWith(file, clamps)

\* The catalog and the edit session, every write to the file going through.
Next ==
    \/ Quiet /\ KeyQuit
    \/ QuitMsg
    \/ \E msg \in BagToSet(inFlight) : StatusMsg(msg)
    \/ Quiet /\ KeyEdit
    \/ Quiet /\ Len(projects) < MaxProjects /\ KeyAdd(WriteDone)
    \/ Quiet /\ KeyDelete(WriteDone)
    \/ Quiet /\ KeyReload
    \/ Quiet /\ \E key \in TableKeys : KeyTable(key)
    \/ Quiet /\ KeyEsc
    \/ Quiet /\ KeyEnter(WriteDone)
    \/ Quiet /\ KeyTab(WriteDone)
    \/ Quiet /\ KeyShiftTab(WriteDone)
    \/ Quiet /\ \E key \in TextKeys :
         /\ editCol \in TypedCols
         /\ key.type = "rune" => Len(textInput.value) < MaxBuf
         /\ KeyText(key)

Spec == Init /\ [][Next]_vars

(***************************************************************************)
(* SpecProj: the projection and the row lookups over catalogs read from    *)
(* the configuration file: names and categories that differ in case only,  *)
(* the empty category, the long s (U+017F, which folds to s and S), and    *)
(* records that share name, path and command.                              *)
(***************************************************************************)
S_s == <<115>>
S_S == <<83>>
S_LongS == <<383>>
S_t == <<116>>
S_q == <<47, 113>>                               \* "/q"

MaxCatalog == 3       \* records in the configuration file

ProjNames == {S_a, S_B}
ProjCategories == {EmptyStr, S_s, S_S}

ProjUniverse ==
    {Project(n, S_p, S_c, EmptyStr, cat) : n \in ProjNames, cat \in ProjCategories}
    \cup {Project(S_a, S_p, S_c, EmptyStr, S_LongS),
          Project(S_a, S_p, S_c, EmptyStr, S_t),
          Project(S_a, S_q, S_c, S_l, S_s)}

\* The catalog of the specification's scenario.
ScenarioCatalog ==
    <<Project(S_Zeta, S_p, S_c, EmptyStr, S_Web),
      Project(S_Alpha, S_p, S_c, EmptyStr, S_Web),
      Project(S_Beta, S_p, S_c, EmptyStr, EmptyStr)>>

ProjFiles ==
    {FileOf(c) : c \in SeqsUpTo(ProjUniverse, MaxCatalog)} \cup {FileOf(ScenarioCatalog)}

InitProj == \E file \in ProjFiles, clamps \in BOOLEAN : InitWith(file, clamps)

ProjTableKeys == {"up", "down"}

NextProj ==
    \/ \E msg \in BagToSet(inFlight) : StatusMsg(msg)
    \/ Quiet /\ \E key \in ProjTableKeys : KeyTable(key)
    \/ Quiet /\ KeyDelete(WriteDone)
    \/ Quiet /\ KeyLaunch(Started)
    \/ Quiet /\ KeyOpenLink(Started)

SpecProj == InitProj /\ [][NextProj]_vars

(***************************************************************************)
(* SpecKeys: the keys of an edit session, among them the keys that are      *)
(* commands in the normal mode.  The catalog stays as it is: tab and        *)
(* shift+tab are pressed on an untouched buffer, enter is not pressed.      *)
(***************************************************************************)
MaxTyped == 2

Rune(r) == [type |-> "rune", rune |-> r]
Named(name) == [type |-> name, rune |-> 0]

\* q, d, n, a, r, o, e and space; ctrl+c, left and right.
CommandKeys ==
    {Rune(113), Rune(100), Rune(110), Rune(97), Rune(114), Rune(111), Rune(101),
     Rune(32), Named("ctrl+c"), Named("left"), Named("right")}
SessionKeys == {Named("esc"), Named("tab"), Named("shift+tab")}

InitKeys ==
    \E catalog \in SeqsUpTo(SampleProjects, MaxInit), clamps \in BOOLEAN :
        InitWith(FileOf(catalog), clamps)

NextKeys ==
    \/ \E key \in ProjTableKeys : KeyTable(key)
    \/ KeyEdit
    \/ \E key \in CommandKeys :
         /\ key.type = "rune" => Len(textInput.value) < MaxTyped
         /\ updateEditKey(key)
    \/ \E key \in SessionKeys :
         /\ key.type # "esc" =>
               /\ editRow >= 0 /\ editRow < Len(projects)
               /\ textInput.value = FieldValue(projects[editRow + 1], editCol)
         /\ updateEditKey(key)

SpecKeys == InitKeys /\ [][NextKeys]_vars

(***************************************************************************)
(* SpecWrite: the catalog and the edit session with writes to the file that *)
(* go through or fail, in any state, and reloads in between.                *)
(***************************************************************************)
WriteSamples ==
    {Project(S_a, S_p, S_c, EmptyStr, S_W),
     Project(S_B, S_WinPath, S_Exe, S_l, EmptyStr)}

WriteFiles == {NoFile} \cup {FileOf(c) : c \in SeqsUpTo(WriteSamples, MaxInit)}

InitWrite == \E file \in WriteFiles, clamps \in BOOLEAN : InitWith(file, clamps)

NextWrite ==
    \/ \E msg \in BagToSet(inFlight) : StatusMsg(msg)
    \/ Quiet /\ \E key \in ProjTableKeys : KeyTable(key)
    \/ Quiet /\ KeyEdit
    \/ Quiet /\ KeyEsc
    \/ Quiet /\ KeyReload
    \/ Quiet /\ \E written \in WriteOutcomes : Len(projects) < MaxProjects /\ KeyAdd(written)
    \/ Quiet /\ \E written \in WriteOutcomes : KeyDelete(written)
    \/ Quiet /\ \E written \in WriteOutcomes : KeyEnter(written)
    \/ Quiet /\ \E written \in WriteOutcomes : KeyTab(written)
    \/ Quiet /\ \E key \in TextKeys :
         /\ editCol \in TypedCols
         /\ key.type = "rune" => Len(textInput.value) < MaxBuf
         /\ KeyText(key)

SpecWrite == InitWrite /\ [][NextWrite]_vars

(***************************************************************************)
(* SpecLaunch: launching and opening links, cmd.Start() succeeding or       *)
(* failing.  The paths are native ones, ones under the mount prefix, the    *)
(* prefix without its slash, and one that holds the prefix twice.           *)
(***************************************************************************)
MaxLaunch == 2

S_AppPath == <<47, 109, 110, 116, 47, 99, 47, 85, 115, 101, 114, 115, 47, 120, 47, 97, 112, 112>>  \* "/mnt/c/Users/x/app"
S_AppExe == <<97, 112, 112, 46, 101, 120, 101>>      \* "app.exe"
S_AppWinPath == <<67, 58, 92, 85, 115, 101, 114, 115, 92, 120, 92, 97, 112, 112>>  \* "C:\Users\x\app"
S_TwicePath == <<47, 109, 110, 116, 47, 99, 47, 109, 110, 116, 47, 99>>  \* "/mnt/c/mnt/c"
S_ExeArg == <<120, 46, 101, 120, 101, 32, 99>>       \* "x.exe c"

LaunchUniverse ==
    {Project(S_a, S_p, S_c, EmptyStr, S_W),
     Project(S_B, S_p, S_c, S_l, EmptyStr),
     Project(S_a, S_AppPath, S_AppExe, S_l, S_W),
     Project(S_B, S_WinPath, S_c, EmptyStr, S_W),
     Project(S_a, S_TwicePath, S_Exe, EmptyStr, EmptyStr),
     Project(S_B, S_MntC, S_Exe, S_l, S_W),
     Project(S_a, S_WinPath, S_ExeArg, EmptyStr, EmptyStr)}

LaunchFiles == {FileOf(c) : c \in SeqsUpTo(LaunchUniverse, MaxLaunch)}

InitLaunch == \E file \in LaunchFiles, clamps \in BOOLEAN : InitWith(file, clamps)

NextLaunch ==
    \/ \E key \in ProjTableKeys : KeyTable(key)
    \/ \E started \in StartOutcomes : KeyLaunch(started)
    \/ \E started \in StartOutcomes : KeyOpenLink(started)
    \/ \E msg \in BagToSet(inFlight) : StatusMsg(msg)

SpecLaunch == InitLaunch /\ [][NextLaunch]_vars

(***************************************************************************)
(* SpecSort: catalogs just long enough for sort.Slice to partition.  All   *)
(* records share category and name but one, whose name sorts first; the    *)
(* path tells the records apart.                                           *)
(***************************************************************************)
SortLen == maxInsertion + 1

\* The catalog whose record at position small (if any) has the smaller name.
SortCatalog(small) ==
    [k \in 1..SortLen |->
        Project(IF k = small THEN S_a ELSE S_B, <<47, 64 + k>>, S_c, EmptyStr, S_W)]

InitSort ==
    \E small \in 0..SortLen, clamps \in BOOLEAN :
        InitWith(FileOf(SortCatalog(small)), clamps)

NextSort ==
    \/ \E msg \in BagToSet(inFlight) : StatusMsg(msg)
    \/ Quiet /\ \E key \in ProjTableKeys : KeyTable(key)
    \/ Quiet /\ Len(projects) = SortLen /\ KeyDelete(WriteDone)
    \/ Quiet /\ KeyReload

SpecSort == InitSort /\ [][NextSort]_vars

(***************************************************************************)
(* SpecLayout: resizing and horizontal scrolling over a small catalog.     *)
(***************************************************************************)
\* 16 leaves an available width below every nominal column width; 72 one
\* that holds Name and Path but not Path and Command; 130 holds four columns,
\* as many as the rows of the constructed table have cells, and 160 all five.
LayoutWidths == {16, 30, 72, 80, 120, 130, 160}
LayoutHeights == {8, 30}

InitLayout ==
    \E catalog \in SeqsUpTo(SampleProjects, MaxInit), clamps \in BOOLEAN :
        InitWith(FileOf(catalog), clamps)

NextLayout ==
    \/ \E msg \in BagToSet(inFlight) : StatusMsg(msg)
    \/ Quiet /\ \E newWidth \in LayoutWidths, newHeight \in LayoutHeights :
           WindowSize(newWidth, newHeight)
    \/ Quiet /\ KeyLeft
    \/ Quiet /\ KeyRight
    \/ Quiet /\ \E key \in ProjTableKeys : KeyTable(key)
    \/ Quiet /\ KeyDelete(WriteDone)
    \/ Quiet /\ KeyReload

SpecLayout == InitLayout /\ [][NextLayout]_vars

(***************************************************************************)
(* Notions the properties are stated in.                                   *)
(***************************************************************************)
\* The display rows (0-based) that are record rows, by the branch that
\* emitted them.
RecordRows == {r \in 0..(Len(rows) - 1) : rows[r + 1].kind = "project"}
HeaderRows == {r \in 0..(Len(rows) - 1) : rows[r + 1].kind = "header"}

\* The cells the current column window shows for a record.
CellsOf(project) == ProjectRow(project, scrollOffset, Len(columns)).cells

\* Row r shows the catalog record at (0-based) index i.
RowShows(r, i) ==
    /\ i >= 0 /\ i < Len(projects)
    /\ rows[r + 1].cells = CellsOf(projects[i + 1])

\* The lookup of a display row in the current state.
OriginalIndex(r) == getOriginalIndexByDisplayIndex(projects, projectIndices, r)
ProjectAt(r) == getProjectByDisplayIndex(projects, projectIndices, r)

\* No two records of the catalog share name, path and command.
DistinctTriples(ps) ==
    \A i, j \in 1..Len(ps) :
        (/\ ps[i].Name = ps[j].Name
         /\ ps[i].Path = ps[j].Path
         /\ ps[i].Command = ps[j].Command) => i = j

\* The selected row is a header row or no row at all.
NoRecordSelected ==
    \/ cursor < 0
    \/ cursor >= Len(rows)
    \/ rows[cursor + 1].kind = "header"

\* C1 as stated: every record row resolves to a valid catalog index, two
\* record rows never resolve to the same index, and the record at the index
\* is the one the row shows.
C1_LookupExact ==
    \A r \in RecordRows :
        /\ RowShows(r, OriginalIndex(r))
        /\ \A r2 \in RecordRows : r2 # r => OriginalIndex(r2) # OriginalIndex(r)

\* C1, amended: the same, for catalogs whose records have pairwise distinct
\* (name, path, command).
C1_LookupExactDistinct == DistinctTriples(projects) => C1_LookupExact

C1_Witness ==
    /\ Len(projects) = 3
    /\ DistinctTriples(projects)
    /\ Cardinality(HeaderRows) >= 2
    /\ \E r \in RecordRows : OriginalIndex(r) # projectIndices[r + 1]

\* The record rows in display order, and what each one shows.
RecordRowSeq == SelectSeq(rows, LAMBDA row : row.kind = "project")

\* The label of a header row: its first cell without the folder prefix.
HeaderLabel(row) == SubSeq(row.cells[1], Len(S_FolderPrefix) + 1, Len(row.cells[1]))

\* Name and category cell of a record row under the initial column window.
NameCell(row) == row.cells[1]
CategoryCell(row) == row.cells[4]
InitialWindow == scrollOffset = 0 /\ Len(columns) = 4

\* The order the specification names: display category, then name, with case
\* removed.  Case is removed either by lower-casing or by Unicode simple case
\* folding; a pair counts as out of order only when it is so under both.
Fold(s) == [i \in 1..Len(s) |-> FoldRune(s[i])]
KeyLessBy(F(_), catA, nameA, catB, nameB) ==
    \/ StrLess(F(catA), F(catB))
    \/ /\ F(catA) = F(catB)
       /\ StrLess(F(nameA), F(nameB))
KeyLess(catA, nameA, catB, nameB) ==
    /\ KeyLessBy(ToLower, catA, nameA, catB, nameB)
    /\ KeyLessBy(Fold, catA, nameA, catB, nameB)

\* C2 as stated: a delete on a record row removes exactly the catalog record
\* that row shows; all other records keep their fields and relative order.
C2_DeleteShown ==
    [][(KeyDelete(WriteDone) /\ ~NoRecordSelected) =>
          \E i \in 0..(Len(projects) - 1) :
              /\ RowShows(cursor, i)
              /\ projects' = RemoveAt(projects, i + 1)]_vars

\* C2, amended: the same, for catalogs whose records have pairwise distinct
\* (name, path, command).
C2_DeleteShownDistinct ==
    [][(KeyDelete(WriteDone) /\ ~NoRecordSelected /\ DistinctTriples(projects)) =>
          \E i \in 0..(Len(projects) - 1) :
              /\ RowShows(cursor, i)
              /\ projects' = RemoveAt(projects, i + 1)]_vars

\* A delete has just removed a record from a three-record catalog in which
\* all records shared one category.
C2_Witness ==
    /\ lastMsg = "d"
    /\ cmd.type = "status"
    /\ Len(projects) = 2
    /\ Len(store.data) = 2
    /\ Cardinality(HeaderRows) = 1
    /\ DistinctTriples(projects)

\* C3 as stated: start-edit with an empty catalog, on a header row or with no
\* row selected leaves editMode false and the catalog, editRow, editCol and
\* the edit buffer as they were.
C3_EditIgnored ==
    [][(KeyEdit /\ (Len(projects) = 0 \/ NoRecordSelected)) =>
          /\ editMode' = FALSE
          /\ UNCHANGED <<projects, editRow, editCol, textInput>>]_vars

\* C4: delete, launch and open-link on a header row or with no row selected
\* change neither the catalog nor the store, start no process and emit no
\* status.
C4_NoRecordNoEffect ==
    [][(NoRecordSelected /\ (KeyDelete(WriteDone) \/ KeyLaunch(Started) \/ KeyOpenLink(Started))) =>
          /\ UNCHANGED <<projects, store, statusMsg, inFlight>>
          /\ spawned' = <<>>
          /\ cmd' = NoCmd]_vars

\* One of the three keys was just absorbed on a header row of a non-empty
\* catalog.
C4_Witness ==
    /\ lastMsg \in {"d", " ", "o"}
    /\ Len(projects) > 0
    /\ cursor >= 0 /\ cursor < Len(rows)
    /\ rows[cursor + 1].kind = "header"
    /\ cmd = NoCmd
    /\ spawned = <<>>

\* C5 as stated: one header row per distinct display category, and the record
\* rows of one category are not split by another header.
C5_OneHeaderPerCategory ==
    InitialWindow =>
        /\ {HeaderLabel(rows[r + 1]) : r \in HeaderRows}
             = {DisplayCategory(projects[i]) : i \in 1..Len(projects)}
        /\ \A r1, r2 \in HeaderRows :
               HeaderLabel(rows[r1 + 1]) = HeaderLabel(rows[r2 + 1]) => r1 = r2
        /\ \A r1, r2 \in RecordRows :
               (r1 < r2 /\ CategoryCell(rows[r1 + 1]) = CategoryCell(rows[r2 + 1]))
                   => \A h \in HeaderRows : ~(r1 < h /\ h < r2)

\* The rows and the index map as sequences of labels.
RowLabels == [r \in 1..Len(rows) |-> <<rows[r].kind, rows[r].cells[1]>>]

\* C6 as stated: the scenario catalog is shown as header Web, Alpha, Zeta,
\* header N/A, Beta with index map -1, 0, 1, -1, 2.
C6_ScenarioAsStated ==
    projects = ScenarioCatalog =>
        /\ RowLabels = << <<"header", S_FolderPrefix \o S_Web>>,
                          <<"project", S_Alpha>>,
                          <<"project", S_Zeta>>,
                          <<"header", S_FolderPrefix \o S_NA>>,
                          <<"project", S_Beta>> >>
        /\ projectIndices = <<-1, 0, 1, -1, 2>>

\* C6, amended: the scenario catalog is shown as header N/A, Beta, header
\* Web, Alpha, Zeta with index map -1, 0, -1, 1, 2.
C6_Scenario ==
    projects = ScenarioCatalog =>
        /\ RowLabels = << <<"header", S_FolderPrefix \o S_NA>>,
                          <<"project", S_Beta>>,
                          <<"header", S_FolderPrefix \o S_Web>>,
                          <<"project", S_Alpha>>,
                          <<"project", S_Zeta>> >>
        /\ projectIndices = <<-1, 0, -1, 1, 2>>

C6_Witness ==
    /\ projects = ScenarioCatalog
    /\ Len(rows) = 5
    /\ cursor = 4

\* C7 as stated: the record rows are a permutation of the catalog, in
\* ascending order of display category and then name, both compared
\* case-insensitively.
C7_SortedPermutation ==
    InitialWindow =>
        /\ Len(RecordRowSeq) = Len(projects)
        /\ \A i \in 1..Len(projects) :
               Cardinality({k \in 1..Len(RecordRowSeq) :
                               RecordRowSeq[k].cells = CellsOf(projects[i])})
                 = Cardinality({k \in 1..Len(projects) :
                               CellsOf(projects[k]) = CellsOf(projects[i])})
        /\ \A k1, k2 \in 1..Len(RecordRowSeq) :
               k1 < k2 =>
                   ~KeyLess(CategoryCell(RecordRowSeq[k2]), NameCell(RecordRowSeq[k2]),
                            CategoryCell(RecordRowSeq[k1]), NameCell(RecordRowSeq[k1]))

\* Two records agree in display category and in name, case ignored.
SameKey(p, q) ==
    /\ EqualFold(DisplayCategory(p), DisplayCategory(q))
    /\ EqualFold(p.Name, q.Name)

\* C8 as stated: records equal in display category and name, case ignored,
\* appear in the rows in the order they have in the catalog.
C8_StableOrder ==
    InitialWindow =>
        \A i \in 1..Len(projects) :
            LET shown == SelectSeq(RecordRowSeq,
                            LAMBDA row : /\ EqualFold(CategoryCell(row), DisplayCategory(projects[i]))
                                         /\ EqualFold(NameCell(row), projects[i].Name))
                kept == SelectSeq(projects, LAMBDA q : SameKey(q, projects[i]))
            IN  [k \in 1..Len(shown) |-> shown[k].cells]
                  = [k \in 1..Len(kept) |-> CellsOf(kept[k])]

\* C9: the index map is as long as the rows, holds -1 exactly at the header
\* rows, and at the record rows holds 0 .. n-1 in increasing order, n being
\* the number of catalog records.
C9_IndexMapShape ==
    /\ Len(projectIndices) = Len(rows)
    /\ \A r \in 1..Len(rows) : (projectIndices[r] = -1) <=> (rows[r].kind = "header")
    /\ LET recordEntries == SelectSeq(projectIndices, LAMBDA x : x # -1)
       IN  recordEntries = [k \in 1..Len(projects) |-> k - 1]

\* A record was just added to a catalog that now shows two categories.
C9_Witness ==
    /\ Len(projects) >= 2
    /\ Cardinality(HeaderRows) >= 2
    /\ lastMsg = "n"
    /\ cmd.type = "status"

\* The projection of the current catalog under the current column window.
Rebuilt == BuildTable(projects, scrollOffset, Len(columns))

\* C10 as stated: after every event that changes the catalog, the scroll
\* offset or the number of visible columns, the rows and the index map are
\* the ones rebuilt from the new values, and every record row has one cell
\* per visible column.
C10_ProjectionCurrent ==
    [][(\/ projects' # projects
        \/ scrollOffset' # scrollOffset
        \/ Len(columns') # Len(columns)) =>
          /\ rows' = Rebuilt'.rows
          /\ projectIndices' = Rebuilt'.indices
          /\ \A r \in 1..Len(rows') :
                 rows'[r].kind = "project" => Len(rows'[r].cells) = Len(columns')]_vars

\* The five fields by the ordinal the specification gives them.
FieldNames == <<"Name", "Path", "Command", "Link", "Category">>
FieldOf(project, f) == project[FieldNames[f + 1]]

\* The edit session is Editing(i, f, buf): record i of the catalog, field f.
Editing ==
    /\ editMode
    /\ editRow >= 0 /\ editRow < Len(projects)
    /\ editCol >= 0 /\ editCol < 5

\* The catalog with buf written into field f of record i and nothing else.
WithField(ps, i, f, buf) ==
    [ps EXCEPT ![i + 1] = [@ EXCEPT ![FieldNames[f + 1]] = buf]]

\* The step leaves Editing(editRow, f, buf) for Editing(editRow, g, value of
\* field g), having written buf into field f first.
MovesField(g) ==
    /\ projects' = WithField(projects, editRow, editCol, textInput.value)
    /\ editMode' /\ editRow' = editRow /\ editCol' = g
    /\ textInput'.value = FieldOf(projects'[editRow + 1], g)

\* C11 as stated: in Editing(i, f, buf) tab writes buf into field f of record
\* i and moves to field (f+1) mod 5 with that field's value as the buffer;
\* shift+tab does the same with (f-1) mod 5.
C11_FieldNavigation ==
    [][/\ (Editing /\ KeyTab(WriteDone)) => MovesField((editCol + 1) % 5)
       /\ (Editing /\ KeyShiftTab(WriteDone)) => MovesField((editCol + 4) % 5)]_vars

\* The edit session is Idle.
Idle == ~editMode /\ editRow = -1 /\ editCol = -1

\* The list of records the configuration file holds.
PersistedList ==
    IF store.exists /\ store.whole
    THEN [k \in 1..Len(store.data) |->
            [Name |-> store.data[k].name, Path |-> store.data[k].path,
             Command |-> store.data[k].command, Link |-> store.data[k].link,
             Category |-> store.data[k].category]]
    ELSE <<>>

\* C12: in Editing(i, f, buf) enter writes buf into field f of record i and
\* nothing else, persists the catalog, rebuilds the projection, returns to
\* Idle and emits the success status; the success status is emitted only by
\* a step that wrote the buffer into the catalog.
C12_Commit ==
    [][/\ (Editing /\ KeyEnter(WriteDone)) =>
            /\ projects' = WithField(projects, editRow, editCol, textInput.value)
            /\ PersistedList' = projects'
            /\ rows' = Rebuilt'.rows /\ projectIndices' = Rebuilt'.indices
            /\ Idle'
            /\ cmd' = showStatus(S_Updated)
            /\ inFlight' = inFlight (+) SetToBag({cmd'})
       /\ inFlight' = inFlight (+) SetToBag({showStatus(S_Updated)}) =>
            /\ Editing
            /\ projects' = WithField(projects, editRow, editCol, textInput.value)]_vars

\* A typed name was committed: it is in the catalog and in the file.
C12_Witness ==
    /\ lastMsg = "enter"
    /\ cmd = showStatus(S_Updated)
    /\ Idle
    /\ \E i \in 1..Len(projects) : projects[i].Name = S_w
    /\ PersistedList = projects

\* C13: in Editing, esc returns to Idle, discards the buffer and leaves the
\* catalog, the file and the projection as they were.
C13_Cancel ==
    [][(Editing /\ KeyEsc) =>
          /\ Idle'
          /\ textInput'.value = EmptyStr
          /\ UNCHANGED <<projects, store, rows, projectIndices>>]_vars

\* A session in which a name was typed over was cancelled.
C13_Witness ==
    /\ lastMsg = "esc"
    /\ Idle
    /\ textInput.value = EmptyStr
    /\ Len(projects) > 0
    /\ \A i \in 1..Len(projects) : projects[i].Name # S_w
    /\ cmd = NoCmd

\* C14: with writes going through, the file holds the catalog after every
\* add, delete and field write, and reload replaces the catalog by the list
\* the file holds; so a record added before a reload is in the catalog after
\* it, field for field.
C14_RoundTrip ==
    [][/\ PersistedList' = projects'
       /\ KeyReload => projects' = PersistedList]_vars

\* A reload after an add: the added record is in the catalog.
C14_Witness ==
    /\ lastMsg = "r"
    /\ cmd = showStatus(S_Refreshed)
    /\ \E i \in 1..Len(projects) : projects[i] = NewProject

\* The launch and link keys, whatever cmd.Start() returns.
LaunchKey == \E started \in StartOutcomes : KeyLaunch(started)
OpenLinkKey == \E started \in StartOutcomes : KeyOpenLink(started)

\* The record the selected row stands for.
Selected == projects[ProjectAt(cursor) + 1]

\* The launch methods by the rule of the specification.
IsForeignPath(path) == Len(path) >= 7 /\ SubSeq(path, 1, 7) = S_MntC \o S_Slash
IsExe(command) == Len(command) >= 4 /\ SubSeq(command, Len(command) - 3, Len(command)) = S_DotExe
MethodOf(project) ==
    IF IsForeignPath(project.Path)
    THEN IF IsExe(project.Command) THEN "start-process" ELSE "direct"
    ELSE "native"

\* The success status of each method.
SuccessStatus(method, name) ==
    CASE method = "start-process" ->
            S_Launched \o name \o S_WindowsVia \o S_PowerShellStart \o S_CloseParen
      [] method = "direct" ->
            S_Launched \o name \o S_WindowsVia \o S_PowerShell \o S_CloseParen
      [] OTHER -> S_Launched \o name

Methods == {"start-process", "direct", "native"}

\* C15: a launch of a record whose path is not under "/mnt/c/" starts the
\* native shell with the one command "cd '<path>' && <command>", in a process
\* group of its own (Setpgid true, Pgid 0), whatever Start returns.
C15_NativeLaunch ==
    [][(LaunchKey /\ ~NoRecordSelected /\ ~IsForeignPath(Selected.Path)) =>
          /\ Len(spawned') = 1
          /\ spawned'[1].name = "bash"
          /\ spawned'[1].args
               = <<"-c", S_Cd \o Selected.Path \o S_QuoteAnd \o Selected.Command>>
          /\ spawned'[1].setpgid = TRUE
          /\ spawned'[1].pgid = 0]_vars

\* A native launch happened, of a path that is the mount prefix without its
\* slash.
C15_Witness ==
    /\ lastMsg = " "
    /\ Len(spawned) = 1
    /\ spawned[1].name = "bash"
    /\ spawned[1].setpgid
    /\ spawned[1].dir = S_MntC

\* C16: every launch uses the one method the rule gives for the record: the
\* foreign shell with Start-Process for a path under "/mnt/c/" and a command
\* ending in ".exe", the foreign shell running the command directly for a
\* path under "/mnt/c/" and any other command, the native shell otherwise; a
\* launch that starts reports the success status of its method, and the three
\* success statuses of a record are pairwise different.
C16_MethodRule ==
    [][(LaunchKey /\ ~NoRecordSelected) =>
          /\ Len(spawned') = 1
          /\ MethodOf(Selected) = "start-process" =>
                /\ spawned'[1].name = "powershell.exe"
                /\ HasSuffix(spawned'[1].args[2],
                             S_StartProcess \o Selected.Command \o S_Quote)
          /\ MethodOf(Selected) = "direct" =>
                /\ spawned'[1].name = "powershell.exe"
                /\ HasSuffix(spawned'[1].args[2], S_QuoteSemi \o Selected.Command)
                /\ ~HasSuffix(spawned'[1].args[2],
                              S_StartProcess \o Selected.Command \o S_Quote)
          /\ MethodOf(Selected) = "native" => spawned'[1].name = "bash"
          /\ KeyLaunch(Started) =>
                cmd' = showStatus(SuccessStatus(MethodOf(Selected), Selected.Name))
          /\ \A m1, m2 \in Methods :
                m1 # m2 => SuccessStatus(m1, Selected.Name) # SuccessStatus(m2, Selected.Name)]_vars

\* A launch through the foreign shell that ran the command directly, the
\* command holding ".exe" but not ending in it.
C16_Witness ==
    /\ lastMsg = " "
    /\ Len(spawned) = 1
    /\ spawned[1].name = "powershell.exe"
    /\ HasSuffix(spawned[1].args[2], S_QuoteSemi \o S_ExeArg)
    /\ cmd = showStatus(SuccessStatus("direct", S_a))

\* The foreign form of a path under the mount prefix: "C:" and the rest of the
\* path after the leading "/mnt/c", every "/" turned into "\".
Backslashed(s) == [k \in 1..Len(s) |-> IF s[k] = 47 THEN 92 ELSE s[k]]
ForeignPath(path) == S_CDrive \o Backslashed(SubSeq(path, 7, Len(path)))

\* C17 as stated: a launch of a record with a path under "/mnt/c/" sets the
\* foreign shell's location to the foreign form of the path, only the leading
\* mount prefix being translated; "/mnt/c/Users/x/app" with "app.exe" is
\* started by Start-Process at "C:\Users\x\app".
C17_PathTranslation ==
    [][(LaunchKey /\ ~NoRecordSelected /\ IsForeignPath(Selected.Path)) =>
          /\ spawned'[1].args[2]
               = S_SetLocation \o ForeignPath(Selected.Path)
                 \o (IF IsExe(Selected.Command)
                     THEN S_StartProcess \o Selected.Command \o S_Quote
                     ELSE S_QuoteSemi \o Selected.Command)
          /\ (Selected.Path = S_AppPath /\ Selected.Command = S_AppExe) =>
                spawned'[1].args[2]
                  = S_SetLocation \o S_AppWinPath \o S_StartProcess \o S_AppExe \o S_Quote]_vars

\* The state a step leaves alone when it only reports: catalog, file, edit
\* session and viewport.
ReportOnly ==
    UNCHANGED <<projects, store, rows, projectIndices, cursor, columns,
                tableHeight, editMode, editRow, editCol, textInput, width,
                height, scrollOffset, maxCols>>

\* C18: when the process of a launch or of a link-open does not start, the
\* step emits the failure status with the error's text and no success
\* status, the program keeps running, and catalog, file, edit session and
\* viewport are as before.
C18_FailedSpawn ==
    [][/\ (KeyLaunch(StartFailed) /\ ~NoRecordSelected) =>
            /\ cmd' = showStatus(S_FailedLaunch \o Selected.Name
                                 \o S_ColonSpace \o S_ErrText)
            /\ \A m \in Methods : cmd' # showStatus(SuccessStatus(m, Selected.Name))
            /\ phase' = "running"
            /\ ReportOnly
       /\ (KeyOpenLink(StartFailed) /\ ~NoRecordSelected /\ Selected.Link # EmptyStr) =>
            /\ cmd' = showStatus(S_FailedLink \o S_ErrText)
            /\ cmd' # showStatus(S_Opened \o Selected.Name \o S_LinkInBrowser)
            /\ phase' = "running"
            /\ ReportOnly]_vars

\* A link-open failed to start and the program runs on.
C18_Witness ==
    /\ lastMsg = "o"
    /\ Len(spawned) = 1
    /\ cmd = showStatus(S_FailedLink \o S_ErrText)
    /\ phase = "running"

\* C19: link-open on a record with an empty link emits the "no link" status
\* and starts nothing; on a record with a link it starts exactly one process,
\* cmd.exe /c start <link>, and emits the success or the failure status.
C19_OpenLink ==
    [][(OpenLinkKey /\ ~NoRecordSelected) =>
          IF Selected.Link = EmptyStr
          THEN /\ cmd' = showStatus(S_NoLink)
               /\ spawned' = <<>>
          ELSE /\ Len(spawned') = 1
               /\ spawned'[1].name = "cmd.exe"
               /\ spawned'[1].args = <<"/c", "start", Selected.Link>>
               /\ cmd' \in {showStatus(S_Opened \o Selected.Name \o S_LinkInBrowser),
                            showStatus(S_FailedLink \o S_ErrText)}]_vars

\* The link of a record was opened.
C19_Witness ==
    /\ lastMsg = "o"
    /\ spawned = <<ExecCmd("cmd.exe", <<"/c", "start", S_l>>, EmptyStr, FALSE)>>
    /\ cmd = showStatus(S_Opened \o S_B \o S_LinkInBrowser)

\* The steps that recompute the layout: a resize, and a left or right key
\* that scrolls (at the first and the last offset the keys return at once).
LayoutStep ==
    /\ phase' = "running"
    /\ \/ \E newWidth \in LayoutWidths, newHeight \in LayoutHeights :
              WindowSize(newWidth, newHeight)
       \/ KeyLeft /\ scrollOffset' # scrollOffset
       \/ KeyRight /\ scrollOffset' # scrollOffset

\* Every nominal column width exceeds the available width.
FitsNoColumn(paneWidth) ==
    \A k \in 1..Len(AllColumns) : paneWidth - 6 < AllColumns[k].Width

\* C20 as stated: after a resize or a scroll, at whatever offset, a pane too
\* narrow for any nominal column shows exactly one column of the available
\* width.
C20_NarrowPane ==
    [][(LayoutStep /\ FitsNoColumn(width')) =>
          /\ Len(columns') = 1
          /\ columns'[1].Width = width' - 6]_vars

\* The n columns from the horizontal offset on, at their nominal widths.
RunFrom(offset, n) == SubSeq(AllColumns, offset + 1, offset + n)

\* The length of the longest run of columns from the offset on whose nominal
\* widths sum to at most the available width.
MaximalRun(offset, availableWidth) ==
    CHOOSE n \in 0..(Len(AllColumns) - offset) :
        /\ SumWidths(RunFrom(offset, n)) <= availableWidth
        /\ \/ n = Len(AllColumns) - offset
           \/ SumWidths(RunFrom(offset, n + 1)) > availableWidth

Titles(cols) == [k \in 1..Len(cols) |-> cols[k].Title]

\* cols are the maximal run from the offset that the available width holds.
IsMaximalRun(cols, offset, availableWidth) ==
    /\ Titles(cols) = Titles(RunFrom(offset, MaximalRun(offset, availableWidth)))
    /\ SumWidths(RunFrom(offset, Len(cols))) <= availableWidth

\* The available width holds each nominal column on its own.
FitsEachColumn(paneWidth) ==
    \A k \in 1..Len(AllColumns) : AllColumns[k].Width <= paneWidth - 6

\* C21 as stated: after a resize or a scroll of a pane in which nominal
\* columns fit (here: each of them on its own), the visible columns are the
\* maximal run of columns from the current offset whose nominal widths sum to
\* at most the available width.
C21_MaximalRun ==
    [][(LayoutStep /\ FitsEachColumn(width')) =>
          IsMaximalRun(columns', scrollOffset', width' - 6)]_vars

\* The offset and the window of visible columns lie within the five columns.
OffsetInRange ==
    /\ 0 <= scrollOffset
    /\ scrollOffset + Len(columns) <= Len(AllColumns)
    /\ Len(columns) >= 1

\* The viewport and what is drawn from it.
ViewportUnchanged ==
    UNCHANGED <<scrollOffset, columns, maxCols, width, height, tableHeight,
                rows, projectIndices, cursor>>

\* C22: through every resize, left and right the offset is at least 0, the
\* offset plus the number of visible columns is at most 5 and a column is
\* visible; left at offset 0 and right at the maximal offset change nothing.
C22_OffsetInRange ==
    [][/\ OffsetInRange /\ OffsetInRange'
       /\ (KeyLeft /\ scrollOffset = 0) => ViewportUnchanged
       /\ (KeyRight /\ scrollOffset + Len(columns) = Len(AllColumns)) =>
             ViewportUnchanged]_vars

\* The right key at the last offset of a pane that shows one column.
C22_Witness ==
    /\ phase = "running"
    /\ lastMsg = "right"
    /\ width = 16
    /\ Len(columns) = 1
    /\ scrollOffset = Len(AllColumns) - 1

\* The place of the column with the title among the five, and its nominal width.
Nominal(title) ==
    CHOOSE k \in 1..Len(AllColumns) : AllColumns[k].Title = title
NominalWidth(col) == AllColumns[Nominal(col.Title)].Width
NominalSum(cols) == SumWidths([k \in 1..Len(cols) |-> AllColumns[Nominal(cols[k].Title)]])

\* C29: after a resize or a scroll every visible column but the last has its
\* nominal width, and when the nominal widths of the visible columns sum to
\* at most the available width the visible widths sum to the available width.
C29_LeftoverToLast ==
    [][LayoutStep =>
          /\ \A k \in 1..(Len(columns') - 1) :
                columns'[k].Width = NominalWidth(columns'[k])
          /\ NominalSum(columns') <= width' - 6 =>
                SumWidths(columns') = width' - 6]_vars

\* Several columns are visible and the last one took the leftover width.
C29_Witness ==
    /\ phase = "running"
    /\ lastMsg \in {"WindowSizeMsg", "left", "right"}
    /\ Len(columns) >= 2
    /\ columns[Len(columns)].Width > NominalWidth(columns[Len(columns)])
    /\ SumWidths(columns) = width - 6

\* C23: in Editing every key but tab, shift+tab, enter and esc, the command
\* keys of the normal mode among them, only reaches the text buffer: catalog,
\* file, projection, editRow, editCol and editMode are unchanged, nothing is
\* spawned and the program does not quit.
C23_KeysToBuffer ==
    [][(Editing /\ \E key \in CommandKeys : updateEditKey(key)) =>
          /\ UNCHANGED <<projects, store, rows, projectIndices,
                         editRow, editCol, editMode>>
          /\ spawned' = <<>>
          /\ cmd' # QuitCmd
          /\ phase' = "running"]_vars

\* The letter q was typed into the buffer of a field other than the name.
C23_Witness ==
    /\ lastMsg = "rune"
    /\ Editing
    /\ editCol = 2
    /\ textInput.value = S_c \o <<113>>
    /\ phase = "running"

\* C24 as stated: the add key appends the new record to the catalog, the
\* earlier records staying as they are, and starts the edit session on it:
\* Editing with editRow the last catalog index, field 0 and the new record's
\* name in the buffer.
C24_AddStartsEdit ==
    [][KeyAdd(WriteDone) =>
          /\ projects' = Append(projects, NewProject)
          /\ editMode'
          /\ editRow' = Len(projects') - 1
          /\ editCol' = 0
          /\ textInput'.value = NewProject.Name]_vars

\* C25 as stated: in every reachable state an edit session in progress has
\* editRow within the catalog and editCol within the five fields, and without
\* one editRow = editCol = -1.
C25_EditIndicesInRange ==
    /\ editMode =>
          /\ 0 <= editRow /\ editRow < Len(projects)
          /\ 0 <= editCol /\ editCol <= 4
    /\ ~editMode => editRow = -1 /\ editCol = -1

\* The record has the name, path and command a record row shows in its first
\* three cells (the row being one of the initial column window).
SharesTriple(project, row) ==
    /\ project.Name = row.cells[1]
    /\ project.Path = row.cells[2]
    /\ project.Command = row.cells[3]

\* C26: a display row that shows a record resolves, by either lookup, to the
\* lowest catalog index whose record has the row's name, path and command,
\* also when several records share them; the record returned is the catalog
\* entry at the index returned.
C26_FirstMatch ==
    InitialWindow =>
        \A r \in RecordRows :
            \E i \in 1..Len(projects) :
                /\ SharesTriple(projects[i], rows[r + 1])
                /\ \A j \in 1..(i - 1) : ~SharesTriple(projects[j], rows[r + 1])
                /\ OriginalIndex(r) = i - 1
                /\ ProjectAt(r) = i - 1

\* Two rows that show records of different categories with one name, path
\* and command resolve to the same catalog entry, the first of the two.
C26_Witness ==
    /\ InitialWindow
    /\ \E r1, r2 \in RecordRows :
          /\ r1 # r2
          /\ rows[r1 + 1].cells[4] # rows[r2 + 1].cells[4]
          /\ OriginalIndex(r1) = OriginalIndex(r2)
          /\ ProjectAt(r2) = OriginalIndex(r1)
          /\ OriginalIndex(r1) < Len(projects) - 1

\* The projection is the one rebuilt from the catalog, and the program runs
\* on: it has neither been told to quit nor ended otherwise.
RebuiltAndRunning ==
    /\ rows' = Rebuilt'.rows /\ projectIndices' = Rebuilt'.indices
    /\ cmd' # QuitCmd
    /\ phase' = "running"

\* The list in the file is the one it held, and it is the catalog from before
\* the change, which a reload would bring back.
FileKeepsCatalog ==
    /\ PersistedList' = PersistedList
    /\ PersistedList' = projects

\* C27 as stated: a write to the file that fails during add, delete or a
\* field write is ignored: the catalog is changed and the projection rebuilt
\* as with a write that goes through, the status emitted is that of success,
\* the program runs on, and the list in the file is as before, so that a
\* reload makes the catalog the one from before the change.
C27_FailedWriteIgnored ==
    [][/\ \A failed \in WriteFailures :
            /\ KeyAdd(failed) =>
                 /\ projects' = Append(projects, NewProject)
                 /\ cmd' = showStatus(S_Added)
                 /\ FileKeepsCatalog /\ RebuiltAndRunning
            /\ (KeyDelete(failed) /\ ~NoRecordSelected) =>
                 /\ projects' = RemoveAt(projects, OriginalIndex(cursor) + 1)
                 /\ cmd' = showStatus(S_Deleted \o projects[OriginalIndex(cursor) + 1].Name)
                 /\ FileKeepsCatalog /\ RebuiltAndRunning
            /\ (Editing /\ KeyEnter(failed)) =>
                 /\ projects' = WithField(projects, editRow, editCol, textInput.value)
                 /\ cmd' = showStatus(S_Updated)
                 /\ FileKeepsCatalog /\ RebuiltAndRunning
            /\ (Editing /\ KeyTab(failed)) =>
                 /\ projects' = WithField(projects, editRow, editCol, textInput.value)
                 /\ cmd' = NoCmd
                 /\ FileKeepsCatalog /\ RebuiltAndRunning
       /\ KeyReload => projects' = PersistedList /\ store' = store]_vars

\* C28: a launch on a record row makes one attempt to start a process within
\* the handling of the key, does not wait for the process, and leaves
\* catalog, file, projection, edit session and viewport as they are whether
\* the start succeeds or fails; what follows is one status message, whose
\* handling sets the status line and nothing else.
C28_LaunchFrame ==
    [][/\ (LaunchKey /\ ~NoRecordSelected) =>
            /\ Len(spawned') = 1
            /\ ~spawned'[1].wait
            /\ ReportOnly
            /\ statusMsg' = statusMsg
            /\ cmd'.type = "status"
            /\ inFlight' = inFlight (+) SetToBag({cmd'})
            /\ phase' = "running"
       /\ \A msg \in BagToSet(inFlight) :
            StatusMsg(msg) =>
              /\ statusMsg' = msg.message
              /\ ReportOnly
              /\ spawned' = <<>>
              /\ cmd' = NoCmd
              /\ inFlight' = inFlight (-) SetToBag({msg})]_vars

\* The status message of a launch that failed to start was delivered.
C28_Witness ==
    /\ lastMsg = "statusMsg"
    /\ statusMsg = S_FailedLaunch \o S_B \o S_ColonSpace \o S_ErrText
    /\ spawned = <<>>
    /\ cmd = NoCmd
    /\ phase = "running"

=============================================================================
